---- MODULE Spec2Model ----
(***************************************************************************)
(* A model of the postMessage RPC engine of cdk-std (src/src/rpc.ts): the  *)
(* class RPC with its outgoing counter, its inbound cursor, its reorder    *)
(* queue and its table of pending calls.                                   *)
(*                                                                         *)
(* Two engines "A" and "B" post to each other over a transport that may    *)
(* reorder but neither loses nor duplicates (specification Spec): "A" is   *)
(* the side whose application makes calls, "B" the side whose application  *)
(* exposes handlers.  In the specifications SpecRecv, SpecCall and         *)
(* SpecReset one engine is driven the way rpc.test.ts drives it: the       *)
(* environment delivers payloads of its own making to the engine's message *)
(* listener.  SpecParticipant puts a Participant (the host's side of the   *)
(* frame) on top of the engine, SpecOn adds the listeners the host         *)
(* registers; SpecReload replaces the engine of "A" by a new instance, as  *)
(* when its page is loaded again; SpecClock is the Clock of the controls   *)
(* synchronising with the server's clock.                                  *)
(***************************************************************************)
EXTENDS Integers, Sequences, FiniteSets, TLC

VARIABLES
  rpc,        \* rpc[e]: the fields of engine e (an RPC instance), with its history
  delivered,  \* delivered[e]: which of the peer's transmissions e's listener has been given
  injected,   \* payloads the environment has delivered to a listener, in order
  clock       \* the fields of a Clock, the two clocks it relates, its getTime call

vars == <<rpc, delivered, injected, clock>>

----------------------------------------------------------------------------
(* Bounds of the model *)

\* calls the application makes on one engine
MaxCalls == 2
\* payloads the environment delivers to a listener in SpecRecv and SpecCall
MaxInject == 3
\* payloads the environment delivers to a listener in SpecReset
MaxPeerSends == 8
\* payloads the environment delivers to a listener in SpecDrain
MaxDrain == 5
\* functions passed to runOnRpc in SpecParticipant
MaxFns == 3
\* payloads the controls deliver in SpecParticipant
MaxControls == 3
\* handlers the application exposes for one method in SpecExpose
MaxHandlers == 2
\* payloads the environment delivers to a listener in SpecExpose and
\* SpecHandle
MaxInvocations == 3
\* listeners the host registers with participant.on in SpecOn
MaxListeners == 2
\* payloads the environment delivers to a listener in SpecReady
MaxHandshake == 3
MaxConversions == 2
MaxPackets == 3

----------------------------------------------------------------------------
(* Values *)

Engines == {"A", "B"}

Peer(e) == IF e = "A" THEN "B" ELSE "A"

\* RPC.serviceID
serviceID == "8f5b3a83-dd7b-4b8a-84ad-146948bc8d27"

\* the protocolVersion argument each engine is constructed with
OwnVersion(e) == IF e = "A" THEN "1.0" ELSE "1.1"

\* the absent `error` field of a reply
NoError == [present |-> FALSE, code |-> 0, message |-> "", path |-> <<>>, hasPath |-> FALSE]

\* the error of the reply to an Invocation nobody handles
UnknownMethodError ==
  [present |-> TRUE, code |-> 4003, message |-> "Unknown method name",
   path |-> <<>>, hasPath |-> FALSE]

\* the absent `params.protocolVersion`
NoParams == [protocolVersion |-> "undefined"]

\* An IRPCMethod packet as call() builds it.  counter/ctype are the `counter`
\* field and its typeof; n, src and re are history: the sender, the position
\* of the message among everything the sender transmitted and, for a Reply
\* an engine builds, the position of the Invocation it answers among what
\* its peer transmitted.
MethodPacket(id, method, params, discard) ==
  [type |-> "method", serviceID |-> serviceID, id |-> id, method |-> method,
   discard |-> discard, params |-> params, result |-> "undefined", error |-> NoError,
   counter |-> 0, ctype |-> "undefined", n |-> 0, src |-> "none", re |-> 0]

\* An IRPCReply packet as expose() and dispatchIncoming() build it.
ReplyPacket(id, result, error) ==
  [type |-> "reply", serviceID |-> serviceID, id |-> id, method |-> "",
   discard |-> FALSE, params |-> NoParams, result |-> result, error |-> error,
   counter |-> 0, ctype |-> "undefined", n |-> 0, src |-> "none", re |-> 0]

\* JSON.stringify of a packet: the text of an object.
JSONstringify(message) == [json |-> "object", obj |-> message]

\* JSON.parse(ev.data): throws a SyntaxError on text that is not JSON; the
\* value is null, a scalar or an object otherwise.
JSONparse(data) ==
  [threw |-> data.json = "invalid", kind |-> data.json, value |-> data.obj]

\* isRPCMessage(data): reading data.type of null throws a TypeError; a scalar
\* has no `type`; an object is judged by its type and typeof counter.
isRPCMessage(parsed) ==
  [threw |-> parsed.kind = "null",
   value |-> /\ parsed.kind = "object"
             /\ parsed.value.type \in {"method", "reply"}
             /\ parsed.value.ctype = "number"]

\* new RPCError(obj.code, obj.message, obj.path)
objToError(obj) ==
  [name |-> "RPCError", code |-> obj.code, message |-> obj.message,
   path |-> obj.path, hasPath |-> obj.hasPath]

----------------------------------------------------------------------------
(* The application's handlers.  A handler is application code: hOk and hAlt *)
(* return a value or a promise that resolves with one (the reply is posted *)
(* when the promise resolves, at any later time), hThrow throws, hReject   *)
(* returns a promise that rejects.                                         *)

Handlers == {"hOk", "hAlt", "hThrow", "hReject"}

HandlerOutcome(h) ==
  CASE h = "hThrow" -> "throw"
    [] h = "hReject" -> "reject"
    [] OTHER -> "return"

\* the methods a Participant exposes to the controls when the frame has
\* loaded
ParticipantMethods ==
  {"sendInteractivePacket", "controlsReady", "maximize", "moveVideo", "unloading",
   "log", "focusOut", "handleExit", "navigate"}

\* the handler the Participant exposes for method m
ParticipantHandler(m) == "participant." \o m

\* the events the host listens for with participant.on(event, handler)
OnEvents == {"loaded", "maximize"}

\* the function Participant.on(event, handler) passes to exposeRPC: it
\* emits `event` with the parameters of the Invocation
OnHandler(event) == "participant.on." \o event

HandlerResult(h) ==
  CASE h = "hAlt" -> "r2"
    [] h \in {ParticipantHandler(m) : m \in ParticipantMethods} -> "undefined"
    [] h \in {OnHandler(ev) : ev \in OnEvents} -> "undefined"
    [] OTHER -> "r1"

\* the events the engine emits about itself
LifecycleEvents == {"sendMethod", "sendReply", "recvMethod", "recvReply", "destroy"}

\* a listener the application attaches with rpc.on(event, fn), without
\* expose
OnListener == "rpc.on"

\* the names in play on the engine's emitter: 'ready', one the application
\* may expose, one nobody ever exposes, those of the Participant, the
\* events the host listens for and the engine's own events
Methods ==
  {"ready", "foo", "nope"} \cup ParticipantMethods \cup OnEvents \cup LifecycleEvents

----------------------------------------------------------------------------
(* The engine *)

\* A JavaScript object used as a map: a set of <<key, value>> with one
\* pair for each key.
has(obj, key) == \E kv \in obj : kv[1] = key
get(obj, key) == (CHOOSE kv \in obj : kv[1] = key)[2]
put(obj, key, value) == {kv \in obj : kv[1] # key} \cup {<<key, value>>}
remove(obj, key) == {kv \in obj : kv[1] # key}

\* new ControlsState(): scenes = {}, groups = {}, currentGroup = 'default'
newControlsState == [scenes |-> {}, groups |-> {}, currentGroup |-> "default"]

\* scene.controls.forEach(control => this.scenes[sceneID][controlID] =
\* {kind, cost})
RECURSIVE cacheControls(_, _)
cacheControls(scene, controls) ==
  IF controls = <<>> THEN scene
  ELSE cacheControls(put(scene, Head(controls).controlID,
                         [kind |-> Head(controls).kind, cost |-> Head(controls).cost]),
                     Tail(controls))

\* cacheScene as it would be if it emptied the scene in every case
cacheSceneAlwaysResets(cs, scene, isPartial) ==
  [cs EXCEPT !.scenes = put(cs.scenes, scene.sceneID, cacheControls({}, scene.controls))]

\* cacheScene(scene, isPartial); a scene without controls (null) has the
\* empty list
cacheScene(cs, scene, isPartial) ==
  LET old == IF ~has(cs.scenes, scene.sceneID) \/ ~isPartial THEN {}
             ELSE get(cs.scenes, scene.sceneID)
  IN [cs EXCEPT !.scenes = put(cs.scenes, scene.sceneID, cacheControls(old, scene.controls))]

\* params.scenes.forEach(scene => this.cacheScene(scene))
RECURSIVE cacheScenes(_, _)
cacheScenes(cs, scenes) ==
  IF scenes = <<>> THEN cs
  ELSE cacheScenes(cacheScene(cs, Head(scenes), FALSE), Tail(scenes))

\* cacheGroup(group)
cacheGroup(cs, group) == [cs EXCEPT !.groups = put(cs.groups, group.groupID, group.sceneID)]

\* params.groups.forEach(group => this.cacheGroup(group))
RECURSIVE cacheGroups(_, _)
cacheGroups(cs, groups) ==
  IF groups = <<>> THEN cs
  ELSE cacheGroups(cacheGroup(cs, Head(groups)), Tail(groups))

\* handleIncomingPacket({type, method, params})
handleIncomingPacket(cs, packet) ==
  LET method == packet.method
      params == packet.params
  IN IF packet.type # "method" THEN cs
     ELSE IF method \in {"onControlCreate", "onControlUpdate"}
       THEN cacheScene(cs, [sceneID |-> params.sceneID, controls |-> params.controls], TRUE)
     ELSE IF method = "onSceneCreate" THEN cacheScenes(cs, params.scenes)
     ELSE IF method = "onSceneDelete"
       THEN [cs EXCEPT !.scenes = remove(cs.scenes, params.sceneID)]
     ELSE IF method \in {"onGroupCreate", "onGroupUpdate"}
       THEN cacheGroups(cs, params.groups)
     ELSE IF method = "onGroupDelete"
       THEN [cs EXCEPT !.groups = remove(cs.groups, params.groupID)]
     ELSE IF method \in {"onParticipantJoin", "onParticipantUpdate"}
       THEN [cs EXCEPT !.currentGroup = params.participants[1].groupID]
     ELSE cs

\* this.scenes[this.groups[this.currentGroup]][controlID]: a TypeError is
\* thrown where the group has no scene, the scene is not cached or the
\* control is not in it (threw), otherwise the entry {kind, cost}
cachedControl(cs, controlID) ==
  IF /\ has(cs.groups, cs.currentGroup)
     /\ has(cs.scenes, get(cs.groups, cs.currentGroup))
     /\ has(get(cs.scenes, get(cs.groups, cs.currentGroup)), controlID)
    THEN [threw |-> FALSE,
          entry |-> get(get(cs.scenes, get(cs.groups, cs.currentGroup)), controlID)]
    ELSE [threw |-> TRUE, entry |-> [kind |-> "TypeError", cost |-> 0]]

\* getControlKind(controlID), getControlCost(controlID)
getControlKind(cs, controlID) == cachedControl(cs, controlID).entry.kind
getControlCost(cs, controlID) == cachedControl(cs, controlID).entry.cost

\* The fields of a Participant before its constructor has run: `made` tells
\* whether it has, ws is the state of the websocket (none, open, closing,
\* failed, closed) and frameListener
\* whether onFrameLoad is registered.  `events` are the events the host has
\* registered a listener for, one entry for each.  passed, ran, emitted and
\* byHost are history: the functions passed to runOnRpc, those executed,
\* the events emitted to the host, whether the host has called destroy().
\* `controls` is its ControlsState and `incoming` (history) the packets
\* handed to it.
NoParticipant ==
  [made |-> FALSE, state |-> "Loading", hasRpc |-> FALSE, replayBuffer |-> <<>>,
   ws |-> "none", frameListener |-> FALSE, wsSent |-> <<>>, events |-> <<>>,
   passed |-> <<>>, ran |-> <<>>, emitted |-> <<>>, byHost |-> FALSE,
   controls |-> newControlsState, incoming |-> <<>>]

\* An RPC object before its constructor has run.  `host` is the Participant
\* whose handlers the engine holds (the object their closures refer to).
\* `born` is history: how many messages earlier instances had transmitted
\* over the transport when this one was constructed.
NoEngine ==
  [built |-> FALSE, attached |-> FALSE, host |-> NoParticipant,
   idCounter |-> 0, calls |-> {}, callCounter |-> 0,
   remoteCallQueue |-> <<>>, lastSequentialCall |-> -1,
   remoteProtocolVersion |-> "undefined",
   listeners |-> [m \in Methods |-> <<>>],
   \* promises of handlers whose .then() has not run yet
   running |-> {},
   \* history
   outbox |-> <<>>, dispatched |-> <<>>, invoked |-> <<>>, settled |-> <<>>,
   threw |-> FALSE, since |-> [m \in Methods |-> 0],
   asked |-> <<>>, returns |-> <<>>, destroyed |-> FALSE, born |-> 0,
   heard |-> <<>>]

\* this.emit(event, packet) for one of the engine's own events: every
\* listener attached with on() is called.  `heard` records each call: the
\* event, the message it is about and whether the engine's own emit or the
\* dispatch of an Invocation made it.
notify(st, event, n) ==
  LET k == Cardinality({i \in 1..Len(st.listeners[event]) :
                          st.listeners[event][i] = OnListener})
  IN [st EXCEPT !.heard = @ \o [i \in 1..k |-> [event |-> event, n |-> n, via |-> "emit"]]]

\* post as it would be if it stamped the counter after increasing it
postStampsAfter(st, message) ==
  LET stamped == [message EXCEPT !.counter = st.callCounter + 1, !.ctype = "number",
                                 !.n = Len(st.outbox) + 1]
  IN [st EXCEPT !.callCounter = @ + 1,
                !.outbox = Append(@, JSONstringify(stamped))]

\* post(message): stamp the counter, serialize, postMessage.
post(st, message) ==
  LET stamped == [message EXCEPT !.counter = st.callCounter, !.ctype = "number",
                                 !.n = Len(st.outbox) + 1]
  IN [st EXCEPT !.callCounter = @ + 1,
                !.outbox = Append(@, JSONstringify(stamped))]

\* call as it would be if it registered a resolver whether or not a reply
\* is awaited
callAlwaysRegisters(st, self, method, params, waitForReply) ==
  LET id == st.idCounter
      packet == [MethodPacket(id, method, params, ~waitForReply) EXCEPT !.src = self]
      sent == post(notify([st EXCEPT !.idCounter = @ + 1], "sendMethod", Len(st.outbox) + 1),
                   packet)
  IN [sent EXCEPT !.calls = @ \cup {id},
                  !.returns = Append(@, [id |-> id, value |-> "Promise"])]

\* call as it would be if the callID were taken from the size of the
\* pending-call table
callIdFromTable(st, self, method, params, waitForReply) ==
  LET id == Cardinality(st.calls)
      packet == [MethodPacket(id, method, params, ~waitForReply) EXCEPT !.src = self]
      sent == post(notify([st EXCEPT !.idCounter = @ + 1], "sendMethod", Len(st.outbox) + 1),
                   packet)
  IN IF ~waitForReply
       THEN [sent EXCEPT !.returns = Append(@, [id |-> id, value |-> "undefined"])]
       ELSE [sent EXCEPT !.calls = @ \cup {id},
                         !.returns = Append(@, [id |-> id, value |-> "Promise"])]

\* call(method, params, waitForReply); `self` names the engine in the
\* history, `returns` records what each call returned.
call(st, self, method, params, waitForReply) ==
  LET id == st.idCounter
      packet == [MethodPacket(id, method, params, ~waitForReply) EXCEPT !.src = self]
      sent == post(notify([st EXCEPT !.idCounter = @ + 1], "sendMethod", Len(st.outbox) + 1),
                   packet)
  IN IF ~waitForReply
       THEN [sent EXCEPT !.returns = Append(@, [id |-> id, value |-> "undefined"])]
       ELSE [sent EXCEPT !.calls = @ \cup {id},
                         !.returns = Append(@, [id |-> id, value |-> "Promise"])]

----------------------------------------------------------------------------
(* The Participant (the host's side of the frame) *)

\* State, in its order
StateRank(state) ==
  CASE state = "Loading" -> 0 [] state = "Ready" -> 1
    [] state = "Closing" -> 2 [] state = "Closed" -> 3

\* A function passed to runOnRpc, run with the RPC instance: the closures
\* of the constructor and of updateSettings call a method of the controls
\* without waiting, that of add() and the `register` of exposeRPC expose
\* a handler.
runFn(st, self, f) ==
  LET logged == [st EXCEPT !.host.ran =
                   Append(@, [token |-> f.token, state |-> st.host.state, rpc |-> st.built])]
  IN CASE f.kind = "call" -> call(logged, self, f.method, NoParams, FALSE)
       [] f.kind = "expose" -> [logged EXCEPT !.listeners[f.method] = Append(@, f.handler)]

\* runOnRpc as it would be if it ran the function whenever the RPC exists
runOnRpcWhenAttached(st, self, fn) ==
  LET f == [fn EXCEPT !.token = Len(st.host.passed) + 1]
      noted == [st EXCEPT !.host.passed = Append(@, [token |-> f.token, state |-> st.host.state])]
  IN IF ~noted.host.hasRpc
       THEN [noted EXCEPT !.host.replayBuffer = Append(@, f)]
       ELSE runFn(noted, self, f)

\* runOnRpc(fn); the function is given a token, its place among the
\* functions passed
runOnRpc(st, self, fn) ==
  LET f == [fn EXCEPT !.token = Len(st.host.passed) + 1]
      noted == [st EXCEPT !.host.passed = Append(@, [token |-> f.token, state |-> st.host.state])]
  IN IF noted.host.state # "Ready"
       THEN [noted EXCEPT !.host.replayBuffer = Append(@, f)]
       ELSE runFn(noted, self, f)

\* a function that calls `method` of the controls, one that exposes
\* `handler` for `method`
CallFn(method) == [kind |-> "call", method |-> method, handler |-> "", token |-> 0]
ExposeFn(method, handler) ==
  [kind |-> "expose", method |-> method, handler |-> handler, token |-> 0]

\* exposeRPC(event, handler): rpcExposedMethods stays empty, so `register`
\* always exposes
exposeRPC(st, self, event, handler) ==
  IF st.host.hasRpc
    THEN [st EXCEPT !.listeners[event] = Append(@, handler)]
    ELSE runOnRpc(st, self, ExposeFn(event, handler))

\* on(event, handler): exposeRPC(event, ...) with a function that emits the
\* event, then super.on(event, handler)
on(st, self, event) ==
  [exposeRPC(st, self, event, OnHandler(event)) EXCEPT !.host.events = Append(@, event)]

\* this.replayBuffer.forEach(p => p(this.rpc))
RECURSIVE replayEach(_, _, _)
replayEach(st, self, fns) ==
  IF fns = <<>> THEN st
  ELSE replayEach(runFn(st, self, Head(fns)), self, Tail(fns))

\* the handler exposed for 'controlsReady'
controlsReady(st, self) ==
  IF st.host.state # "Loading" THEN st
  ELSE LET ready == [st EXCEPT !.host.state = "Ready"]
           replayed == replayEach(ready, self, ready.host.replayBuffer)
       IN [replayed EXCEPT !.host.replayBuffer = <<>>,
                           !.host.emitted = Append(@, [event |-> "loaded", expected |-> FALSE])]

\* the event a handler of the Participant emits to the host
ForwardedEvent(m) == IF m = "unloading" THEN "unload" ELSE m

\* what the handlers the Participant exposes do to the Participant and
\* its RPC; the handlers of the application in this model have no effect
\* of their own
HandlerEffect(st, self, h, data) ==
  CASE h = ParticipantHandler("controlsReady") -> controlsReady(st, self)
    [] h = ParticipantHandler("sendInteractivePacket") ->
         [st EXCEPT !.host.wsSent = Append(@, data.n)]
    [] h \in {ParticipantHandler(m) :
                m \in ParticipantMethods \ {"controlsReady", "sendInteractivePacket"}} ->
         [st EXCEPT !.host.emitted =
            Append(@, [event |-> ForwardedEvent(data.method), expected |-> FALSE])]
    [] h \in {OnHandler(ev) : ev \in OnEvents} ->
         [st EXCEPT !.host.emitted = Append(@, [event |-> data.method, expected |-> FALSE])]
    [] OTHER -> st

----------------------------------------------------------------------------
(* The engine, receiving *)

\* handleReply as it would be if it looked at the result and not at the error
handleReplyIgnoresError(st, packet) ==
  IF packet.id \notin st.calls THEN st
  ELSE [st EXCEPT
         !.settled = Append(@,
            [id |-> packet.id, how |-> "resolve", value |-> packet.result,
             error |-> objToError(NoError), by |-> packet.n]),
         !.calls = @ \ {packet.id}]

\* handleReply as it would be if it left the entry in the table
handleReplyKeepsEntry(st, packet) ==
  IF packet.id \notin st.calls THEN st
  ELSE [st EXCEPT
         !.settled = Append(@,
            IF packet.error.present
              THEN [id |-> packet.id, how |-> "reject", value |-> "null",
                    error |-> objToError(packet.error), by |-> packet.n]
              ELSE [id |-> packet.id, how |-> "resolve", value |-> packet.result,
                    error |-> objToError(NoError), by |-> packet.n])]

\* handleReply(packet)
handleReply(st, packet) ==
  IF packet.id \notin st.calls THEN st
  ELSE [st EXCEPT
         !.settled = Append(@,
            IF packet.error.present
              THEN [id |-> packet.id, how |-> "reject", value |-> "null",
                    error |-> objToError(packet.error), by |-> packet.n]
              ELSE [id |-> packet.id, how |-> "resolve", value |-> packet.result,
                    error |-> objToError(NoError), by |-> packet.n]),
         !.calls = @ \ {packet.id}]

\* the listener of expose as it would be if it answered fire-and-forget
\* Invocations too
exposedRepliesToDiscard(st, self, h, data) ==
  LET called == [st EXCEPT !.invoked = Append(@, [h |-> h, n |-> data.n, counter |-> data.counter,
                                                  id |-> data.id, discard |-> data.discard,
                                                  among |-> Len(st.listeners[data.method])])]
      ran == HandlerEffect(called, self, h, data)
  IN CASE HandlerOutcome(h) = "throw" -> [ran EXCEPT !.threw = TRUE]
       [] HandlerOutcome(h) = "reject" -> ran
       [] OTHER -> [ran EXCEPT !.running = @ \cup
                      {[id |-> data.id, result |-> HandlerResult(h), for |-> data.n,
                        seq |-> Len(ran.invoked)]}]

\* The listener expose(method, handler) registers, run on Invocation `data`.
\* `invoked` records the call of the handler and how many listeners the
\* method had at that time.
exposed(st, self, h, data) ==
  LET called == [st EXCEPT !.invoked = Append(@, [h |-> h, n |-> data.n, counter |-> data.counter,
                                                  id |-> data.id, discard |-> data.discard,
                                                  among |-> Len(st.listeners[data.method])])]
      ran == HandlerEffect(called, self, h, data)
  IN CASE HandlerOutcome(h) = "throw" -> [ran EXCEPT !.threw = TRUE]
       [] data.discard -> ran
       [] HandlerOutcome(h) = "reject" -> ran
       [] OTHER -> [ran EXCEPT !.running = @ \cup
                      {[id |-> data.id, result |-> HandlerResult(h), for |-> data.n,
                        seq |-> Len(ran.invoked)]}]

\* emit(packet.method, packet): the listeners of the event in registration
\* order, those of expose and those attached with on(); an exception of one
\* listener ends the loop.
RECURSIVE emit(_, _, _, _)
emit(st, self, ls, data) ==
  IF ls = <<>> \/ st.threw THEN st
  ELSE IF Head(ls) = OnListener
    THEN emit([st EXCEPT !.heard =
                 Append(@, [event |-> data.method, n |-> data.n, via |-> "dispatch"])],
              self, Tail(ls), data)
  ELSE emit(exposed(st, self, Head(ls), data), self, Tail(ls), data)

\* dispatchIncoming as it would be if a fire-and-forget Invocation nobody
\* handles were dropped instead of answered
dispatchIncomingSilent(st, self, packet) ==
  LET s1 == [st EXCEPT !.lastSequentialCall = packet.counter,
                       !.dispatched = Append(@, packet)]
      m1 == notify(s1, "recvMethod", packet.n)
  IN CASE packet.type = "method" ->
            IF Len(m1.listeners[packet.method]) > 0
              THEN emit(m1, self, m1.listeners[packet.method], packet)
              ELSE IF packet.discard THEN m1
              ELSE post(m1, [ReplyPacket(packet.id, "null", UnknownMethodError)
                               EXCEPT !.src = self, !.re = packet.n])
       [] packet.type = "reply" -> handleReply(notify(s1, "recvReply", packet.n), packet)
       [] OTHER -> s1

\* dispatchIncoming(packet)
dispatchIncoming(st, self, packet) ==
  LET s1 == [st EXCEPT !.lastSequentialCall = packet.counter,
                       !.dispatched = Append(@, packet)]
      m1 == notify(s1, "recvMethod", packet.n)
  IN CASE packet.type = "method" ->
            IF Len(m1.listeners[packet.method]) > 0
              THEN emit(m1, self, m1.listeners[packet.method], packet)
              ELSE post(m1, [ReplyPacket(packet.id, "null", UnknownMethodError)
                               EXCEPT !.src = self, !.re = packet.n])
       [] packet.type = "reply" -> handleReply(notify(s1, "recvReply", packet.n), packet)
       [] OTHER -> s1

\* replayQueue()
RECURSIVE replayQueue(_, _)
replayQueue(st, self) ==
  IF st.threw \/ Len(st.remoteCallQueue) = 0 THEN st
  ELSE LET next == Head(st.remoteCallQueue)
       IN IF next.counter > st.lastSequentialCall + 1 THEN st
          ELSE replayQueue(
                 dispatchIncoming([st EXCEPT !.remoteCallQueue = Tail(@)], self, next),
                 self)

\* the for loop of listener as it would be if a packet whose counter is
\* already in the queue were dropped
RECURSIVE insertSortedOnce(_, _)
insertSortedOnce(queue, packet) ==
  IF queue = <<>> THEN <<packet>>
  ELSE IF Head(queue).counter = packet.counter THEN queue
  ELSE IF Head(queue).counter > packet.counter THEN <<packet>> \o queue
  ELSE <<Head(queue)>> \o insertSortedOnce(Tail(queue), packet)

\* the for loop of listener as it would be if it spliced the packet in
\* before the first queued packet with a counter greater or equal
RECURSIVE insertSortedBeforeEqual(_, _)
insertSortedBeforeEqual(queue, packet) ==
  IF queue = <<>> THEN <<packet>>
  ELSE IF Head(queue).counter >= packet.counter THEN <<packet>> \o queue
  ELSE <<Head(queue)>> \o insertSortedBeforeEqual(Tail(queue), packet)

\* The for loop of listener: splice the packet in before the first queued
\* packet with a greater counter, push it if there is none.
RECURSIVE insertSorted(_, _)
insertSorted(queue, packet) ==
  IF queue = <<>> THEN <<packet>>
  ELSE IF Head(queue).counter > packet.counter THEN <<packet>> \o queue
  ELSE <<Head(queue)>> \o insertSorted(Tail(queue), packet)

\* listener as it would be if it did not compare the serviceID
listenerAnyService(st0, self, data) ==
  LET st == [st0 EXCEPT !.threw = FALSE]
      parsed == JSONparse(data)
      packet == parsed.value
      isRPC == isRPCMessage(parsed)
  IN IF parsed.threw \/ isRPC.threw THEN [st EXCEPT !.threw = TRUE]
     ELSE IF ~isRPC.value THEN st
     ELSE
       LET s1 == IF packet.type = "method" /\ packet.method = "ready"
                   THEN [st EXCEPT !.lastSequentialCall = packet.counter - 1,
                                   !.remoteProtocolVersion = packet.params.protocolVersion,
                                   !.callCounter = 0]
                   ELSE st
       IN IF packet.counter <= s1.lastSequentialCall + 1
            THEN replayQueue(dispatchIncoming(s1, self, packet), self)
            ELSE [s1 EXCEPT !.remoteCallQueue = insertSorted(@, packet)]

\* listener as it would be if a 'ready' did not set the cursor and waited
\* for its turn like any other Invocation
listenerReadyInTurn(st0, self, data) ==
  LET st == [st0 EXCEPT !.threw = FALSE]
      parsed == JSONparse(data)
      packet == parsed.value
      isRPC == isRPCMessage(parsed)
  IN IF parsed.threw \/ isRPC.threw THEN [st EXCEPT !.threw = TRUE]
     ELSE IF ~isRPC.value \/ packet.serviceID # serviceID THEN st
     ELSE
       LET s1 == IF packet.type = "method" /\ packet.method = "ready"
                   THEN [st EXCEPT !.remoteProtocolVersion = packet.params.protocolVersion,
                                   !.callCounter = 0]
                   ELSE st
       IN IF packet.counter <= s1.lastSequentialCall + 1
            THEN replayQueue(dispatchIncoming(s1, self, packet), self)
            ELSE [s1 EXCEPT !.remoteCallQueue = insertSorted(@, packet)]

\* listener as it would be if it took the remote version from every
\* Invocation
listenerVersionOfAny(st0, self, data) ==
  LET st == [st0 EXCEPT !.threw = FALSE]
      parsed == JSONparse(data)
      packet == parsed.value
      isRPC == isRPCMessage(parsed)
  IN IF parsed.threw \/ isRPC.threw THEN [st EXCEPT !.threw = TRUE]
     ELSE IF ~isRPC.value \/ packet.serviceID # serviceID THEN st
     ELSE
       LET s0 == IF packet.type = "method"
                   THEN [st EXCEPT !.remoteProtocolVersion = packet.params.protocolVersion]
                   ELSE st
           s1 == IF packet.type = "method" /\ packet.method = "ready"
                   THEN [s0 EXCEPT !.lastSequentialCall = packet.counter - 1,
                                   !.callCounter = 0]
                   ELSE s0
       IN IF packet.counter <= s1.lastSequentialCall + 1
            THEN replayQueue(dispatchIncoming(s1, self, packet), self)
            ELSE [s1 EXCEPT !.remoteCallQueue = insertSorted(@, packet)]

\* listener(ev)
listener(st0, self, data) ==
  LET st == [st0 EXCEPT !.threw = FALSE]
      parsed == JSONparse(data)
      packet == parsed.value
      isRPC == isRPCMessage(parsed)
  IN IF parsed.threw \/ isRPC.threw THEN [st EXCEPT !.threw = TRUE]
     ELSE IF ~isRPC.value \/ packet.serviceID # serviceID THEN st
     ELSE
       LET s1 == IF packet.type = "method" /\ packet.method = "ready"
                   THEN [st EXCEPT !.lastSequentialCall = packet.counter - 1,
                                   !.remoteProtocolVersion = packet.params.protocolVersion,
                                   !.callCounter = 0]
                   ELSE st
       IN IF packet.counter <= s1.lastSequentialCall + 1
            THEN replayQueue(dispatchIncoming(s1, self, packet), self)
            ELSE [s1 EXCEPT !.remoteCallQueue = insertSorted(@, packet)]

\* the constructor as it would be if it waited for a reply to its 'ready'
constructAwaiting(self, protocolVersion) ==
  call([NoEngine EXCEPT !.built = TRUE, !.attached = TRUE], self, "ready",
       [protocolVersion |-> protocolVersion], TRUE)

\* constructor: addEventListener, then call('ready', {protocolVersion}, false)
construct(self, protocolVersion) ==
  call([NoEngine EXCEPT !.built = TRUE, !.attached = TRUE], self, "ready",
       [protocolVersion |-> protocolVersion], FALSE)

\* The page of an engine is loaded again: the instance is gone with its
\* page and the constructor runs in the new page, on the same transport.
reload(st, self, protocolVersion) ==
  call([NoEngine EXCEPT !.built = TRUE, !.attached = TRUE,
                        !.outbox = st.outbox, !.born = Len(st.outbox)],
       self, "ready", [protocolVersion |-> protocolVersion], FALSE)

\* destroy as it would be if it left the message listener attached
destroyKeepsListener(st) == notify(st, "destroy", 0)

\* destroy(): emit('destroy'), then
\* removeEventListener('message', this.listener)
destroy(st) == [notify(st, "destroy", 0) EXCEPT !.attached = FALSE]

\* remoteVersion()
remoteVersion(st) == st.remoteProtocolVersion

----------------------------------------------------------------------------
(* The Participant: its life *)

\* new Participant(frame, settings): the constructor passes runOnRpc a
\* function that calls 'updateSettings'
newParticipant(st, self) ==
  runOnRpc([st EXCEPT !.host = [NoParticipant EXCEPT !.made = TRUE]], self,
           CallFn("updateSettings"))

\* connect(options): open the websocket, listen for the frame's load
connect(st) == [st EXCEPT !.host.ws = "open", !.host.frameListener = TRUE]

\* The exposeRPC calls of attachListeners, in their order.
AttachOrder ==
  <<"sendInteractivePacket", "controlsReady", "maximize", "moveVideo", "unloading",
    "log", "focusOut", "handleExit", "navigate">>

RECURSIVE exposeAll(_, _, _)
exposeAll(st, self, ms) ==
  IF ms = <<>> THEN st
  ELSE exposeAll(exposeRPC(st, self, Head(ms), ParticipantHandler(Head(ms))), self, Tail(ms))

\* attachListeners(): new RPC(frame.contentWindow, '1.0'), the exposeRPC
\* calls, then call('resendReady', {}, false)
attachListeners(st, self) ==
  LET created == [construct(self, "1.0") EXCEPT !.host = [st.host EXCEPT !.hasRpc = TRUE]]
  IN call(exposeAll(created, self, AttachOrder), self, "resendReady", NoParams, FALSE)

\* onFrameLoad as it would be if it attached the listeners in any state
onFrameLoadAlways(st, self) ==
  LET loaded == attachListeners(st, self)
  IN [loaded EXCEPT !.host.frameListener = FALSE]

\* onFrameLoad
onFrameLoad(st, self) ==
  LET loaded == IF st.host.state = "Loading" THEN attachListeners(st, self) ELSE st
  IN [loaded EXCEPT !.host.frameListener = FALSE]

\* Participant.destroy(): websocket.close() starts the closing handshake of
\* an open websocket
participantDestroy(st) ==
  LET closing == IF StateRank(st.host.state) < StateRank("Closing")
                   THEN [st EXCEPT !.host.state = "Closing"] ELSE st
      detached == IF closing.host.hasRpc THEN destroy(closing) ELSE closing
  IN [detached EXCEPT !.host.ws = IF @ = "open" THEN "closing" ELSE @]

\* the listener of the websocket's close event
onWebsocketClose(st) ==
  LET told == [st EXCEPT !.host.emitted =
                 Append(@, [event |-> "close", expected |-> st.host.state = "Closing"]),
                         !.host.state = "Closed",
                         !.host.ws = "closed"]
  IN participantDestroy(told)

\* handleWebsocketError(ev)
handleWebsocketError(st) ==
  LET told == [st EXCEPT !.host.emitted =
                 Append(@, [event |-> "close", expected |-> st.host.state = "Closing"]),
                         !.host.state = "Closed"]
  IN participantDestroy(told)

\* the .then() of expose: build the reply, emit 'sendReply' and post it
reply(st, self, r) ==
  post(notify([st EXCEPT !.running = @ \ {r}], "sendReply", Len(st.outbox) + 1),
       [ReplyPacket(r.id, r.result, NoError) EXCEPT !.src = self, !.re = r.for])

----------------------------------------------------------------------------
(* The Clock of the controls (bundle/clock.ts).  Times are counted in half *)
(* milliseconds, so that the half of a round trip is a whole number:       *)
(* Date.now() is Ms(n) for a whole number n of milliseconds.               *)

Ms(n) == 2 * n

\* sync(remaining = 3): the samples to take after the first
SyncRemaining == 3

\* A Clock before its constructor has run, with the environment of its
\* getTime call: now is Date.now(), skew what the server's clock is ahead
\* of it, call the state of the getTime call (none, sent, answered) and
\* time the `time` of its answer.  calls, lats and failed are history: the
\* getTime calls made, the latency of request and response of each sample,
\* whether a call was rejected.  waiting holds the callbacks attached to
\* `awaiting` with then() that have not run, settled (history) what the
\* promises returned by remoteToLocal and localToRemote were settled with.
NoClock ==
  [built |-> FALSE, listening |-> FALSE, delta |-> 0, awaiting |-> "pending",
   remaining |-> 0, deltaSamples |-> <<>>, start |-> 0,
   call |-> "none", time |-> 0, now |-> 0, skew |-> 0,
   calls |-> 0, lats |-> <<>>, failed |-> FALSE,
   waiting |-> <<>>, settled |-> <<>>]

\* the decimal digits of a natural number, as character codes
RECURSIVE Digits(_)
Digits(n) == IF n < 10 THEN <<48 + n>> ELSE Digits(n \div 10) \o <<48 + (n % 10)>>

\* String(x) of the number x = v / 2: sign, whole part, ".5"
NumberToString(v) ==
  LET abs == IF v < 0 THEN -v ELSE v
  IN (IF v < 0 THEN <<45>> ELSE <<>>) \o Digits(abs \div 2)
       \o (IF abs % 2 = 1 THEN <<46, 53>> ELSE <<>>)

\* a < b for strings, by code units
RECURSIVE StringLess(_, _)
StringLess(a, b) ==
  IF b = <<>> THEN FALSE
  ELSE IF a = <<>> THEN TRUE
  ELSE IF Head(a) # Head(b) THEN Head(a) < Head(b)
  ELSE StringLess(Tail(a), Tail(b))

\* Array.prototype.sort() without a comparator: ascending by the strings
\* of the elements
RECURSIVE InsertByString(_, _)
InsertByString(sorted, x) ==
  IF sorted = <<>> THEN <<x>>
  ELSE IF StringLess(NumberToString(x), NumberToString(Head(sorted)))
    THEN <<x>> \o sorted
  ELSE <<Head(sorted)>> \o InsertByString(Tail(sorted), x)

RECURSIVE arraySort(_)
arraySort(a) ==
  IF a = <<>> THEN <<>>
  ELSE InsertByString(arraySort(SubSeq(a, 1, Len(a) - 1)), a[Len(a)])

\* remoteToLocal(timestamp), localToRemote(timestamp): the value computed by
\* the callback attached to `awaiting`
remoteToLocal(c, timestamp) == timestamp - c.delta
localToRemote(c, timestamp) == timestamp + c.delta

\* the callback of a conversion runs: its promise resolves with the value
run(c, request) ==
  [request EXCEPT !.outcome = "resolved",
                  !.value = IF request.fn = "remoteToLocal"
                              THEN remoteToLocal(c, request.timestamp)
                              ELSE localToRemote(c, request.timestamp)]

\* this.awaiting.then(callback) as it would be if it did not wait
awaitingThenAtOnce(c, request) == [c EXCEPT !.settled = Append(@, run(c, request))]

\* this.awaiting.then(callback): the callback runs once `awaiting` has
\* resolved
awaitingThen(c, request) ==
  IF c.awaiting = "resolved"
    THEN [c EXCEPT !.settled = Append(@, run(c, request))]
    ELSE [c EXCEPT !.waiting = Append(@, request)]

\* the promise returned by the outermost sync() settles: `awaiting`
\* resolves and the callbacks attached to it run in their order
resolveAwaiting(c) ==
  [c EXCEPT !.awaiting = "resolved", !.waiting = <<>>,
            !.settled = @ \o [k \in 1..Len(c.waiting) |-> run(c, c.waiting[k])]]

\* new Clock(socket): socket.once('interactivePacket', ...)
newClock(c) == [c EXCEPT !.built = TRUE, !.listening = TRUE]

\* sync(remaining, deltaSamples) up to its socket.call('getTime', {})
sync(c, remaining, deltaSamples) ==
  [c EXCEPT !.start = c.now, !.remaining = remaining, !.deltaSamples = deltaSamples,
            !.call = "sent", !.calls = @ + 1]

\* the .then() of sync as it would be if it did not add the latency
onTimeWithoutLatency(c) ==
  LET now == c.now
      samples == Append(c.deltaSamples, c.time - now)
  IN IF c.remaining > 0
       THEN sync(c, c.remaining - 1, samples)
       ELSE resolveAwaiting(
              [c EXCEPT !.deltaSamples = arraySort(samples),
                        !.delta = arraySort(samples)[(Len(samples) \div 2) + 1],
                        !.call = "none"])

\* the .then() of sync: the answer {time} of getTime has arrived
onTime(c) ==
  LET now == c.now
      samples == Append(c.deltaSamples, c.time + (now - c.start) \div 2 - now)
  IN IF c.remaining > 0
       THEN sync(c, c.remaining - 1, samples)
       ELSE resolveAwaiting(
              [c EXCEPT !.deltaSamples = arraySort(samples),
                        !.delta = arraySort(samples)[(Len(samples) \div 2) + 1],
                        !.call = "none"])

\* the .catch() of sync as it would be if it kept the last sample taken
onTimeErrorKeepsSample(c) ==
  resolveAwaiting(
    [c EXCEPT !.call = "none", !.failed = TRUE,
              !.delta = IF c.deltaSamples = <<>> THEN c.delta
                        ELSE c.deltaSamples[Len(c.deltaSamples)]])

\* the .catch() of sync: the getTime call was rejected
onTimeError(c) == resolveAwaiting([c EXCEPT !.call = "none", !.failed = TRUE])

----------------------------------------------------------------------------
(* Actions *)

Init ==
  /\ rpc = [e \in Engines |-> NoEngine]
  /\ delivered = [e \in Engines |-> {}]
  /\ injected = <<>>
  /\ clock = NoClock

\* new RPC(target, version)
Construct(e) ==
  /\ ~rpc[e].built
  /\ rpc' = [rpc EXCEPT ![e] = construct(e, OwnVersion(e))]
  /\ UNCHANGED <<delivered, injected, clock>>

\* rpc.expose(m, h): this.on(m, listener) adds a listener to those the
\* method already has; `since` records how many packets had been dispatched
\* before the method had its first one
Expose(e, m, h) ==
  /\ rpc[e].built
  /\ rpc' = [rpc EXCEPT ![e].listeners[m] = Append(@, h),
                        ![e].since[m] = IF rpc[e].listeners[m] = <<>>
                                          THEN Len(rpc[e].dispatched) ELSE @]
  /\ UNCHANGED <<delivered, injected, clock>>

\* rpc.on(event, fn) by the application, for one of the engine's own events
OnEvent(e, event) ==
  /\ rpc[e].built
  /\ rpc' = [rpc EXCEPT ![e].listeners[event] = Append(@, OnListener)]
  /\ UNCHANGED <<delivered, injected, clock>>

\* rpc.call(m, params, waitForReply) by the application; `asked` records
\* what the application asked for
Call(e, m, waitForReply) ==
  /\ rpc[e].built
  /\ rpc[e].idCounter <= MaxCalls
  /\ rpc' = [rpc EXCEPT ![e] =
               call([@ EXCEPT !.asked = Append(@, [method |-> m, waitForReply |-> waitForReply])],
                    e, m, NoParams, waitForReply)]
  /\ UNCHANGED <<delivered, injected, clock>>

\* the transport hands the i-th transmission of the peer to e's listener
Deliver(e, i) ==
  /\ rpc[e].attached
  /\ i \in 1..Len(rpc[Peer(e)].outbox)
  /\ i \notin delivered[e]
  /\ rpc' = [rpc EXCEPT ![e] = listener(@, e, rpc[Peer(e)].outbox[i])]
  /\ delivered' = [delivered EXCEPT ![e] = @ \cup {i}]
  /\ UNCHANGED <<injected, clock>>

\* the page of e is loaded again, once
Reload(e) ==
  /\ rpc[e].built /\ rpc[e].born = 0
  /\ rpc' = [rpc EXCEPT ![e] = reload(@, e, OwnVersion(e))]
  /\ UNCHANGED <<delivered, injected, clock>>

\* the promise of a handler resolves and its reply is posted
Complete(e, r) ==
  /\ r \in rpc[e].running
  /\ rpc' = [rpc EXCEPT ![e] = reply(@, e, r)]
  /\ UNCHANGED <<delivered, injected, clock>>

\* Two engines: both are constructed, in either order; the application of A
\* calls, the application of B may expose a handler for 'foo' (one that
\* returns); the transport delivers in any order.
Next ==
  \/ \E e \in Engines : Construct(e)
  \/ rpc["B"].listeners["foo"] = <<>> /\ Expose("B", "foo", "hOk")
  \/ \E w \in BOOLEAN : Call("A", "foo", w)
  \/ \E e \in Engines : \E i \in 1..Len(rpc[Peer(e)].outbox) : Deliver(e, i)
  \/ \E r \in rpc["B"].running : Complete("B", r)

Spec == Init /\ [][Next]_vars

----------------------------------------------------------------------------
(* One engine driven by the environment, as in rpc.test.ts *)

\* What the environment hands to the listener.  The tests hand over packets
\* of their own making; a page that shares the window hands over anything.
EnvInvocation(method, counter, discard) ==
  JSONstringify(
    [MethodPacket(1, method, IF method = "ready" THEN [protocolVersion |-> "1.1"] ELSE NoParams,
                  discard)
       EXCEPT !.counter = counter, !.ctype = "number", !.src = "env"])

EnvReply(id, counter, result, error) ==
  JSONstringify(
    [ReplyPacket(id, result, error)
       EXCEPT !.counter = counter, !.ctype = "number", !.src = "env"])

\* a 'ready' Invocation announcing protocol version v
EnvReady(counter, v) ==
  [EnvInvocation("ready", counter, TRUE) EXCEPT !.obj.params = [protocolVersion |-> v]]

\* an error a peer's handler might report
SomeError ==
  [present |-> TRUE, code |-> 4000, message |-> "bad input",
   path |-> <<"a", "b">>, hasPath |-> TRUE]

\* payloads of another service, of another type, without a numeric counter
ForeignService(data) == [data EXCEPT !.obj.serviceID = "another service"]
OtherType(data) == [data EXCEPT !.obj.type = "event"]
NoCounter(data) == [data EXCEPT !.obj.ctype = "undefined"]

\* text that is not JSON, the text "null", the text of a number
NonObjects ==
  {[json |-> k, obj |-> MethodPacket(0, "", NoParams, FALSE)] :
     k \in {"invalid", "null", "scalar"}}

\* a packet of this protocol: an object with the service's tag, a type of
\* the protocol and a numeric counter
WellFormed(data) ==
  /\ data.json = "object"
  /\ data.obj.serviceID = serviceID
  /\ data.obj.type \in {"method", "reply"}
  /\ data.obj.ctype = "number"

ValidPayloads ==
  {EnvInvocation("ready", 0, TRUE), EnvInvocation("foo", 0, FALSE),
   EnvInvocation("foo", 1, FALSE), EnvReply(1, 0, "r1", NoError)}

DefectPayloads ==
  {ForeignService(EnvInvocation("ready", 0, TRUE)), OtherType(EnvInvocation("ready", 0, TRUE)),
   NoCounter(EnvInvocation("ready", 0, TRUE)), ForeignService(EnvReply(1, 0, "r1", NoError)),
   NoCounter(EnvInvocation("foo", 0, FALSE))}

ReplyPayloads ==
  {EnvReply(id, counter, v[1], v[2]) :
     id \in {1, 2}, counter \in {0, 1},
     v \in {<<"r1", NoError>>, <<"r2", NoError>>, <<"null", SomeError>>}}

PeerPayloads ==
  {EnvInvocation("ready", 0, TRUE)} \cup {EnvInvocation("foo", c, TRUE) : c \in 1..4}

\* the counters of the payloads delivered since the last 'ready'
RECURSIVE SinceReady(_)
SinceReady(log) ==
  IF log = <<>> THEN {}
  ELSE LET p == log[Len(log)].obj
       IN IF p.method = "ready" THEN {}
          ELSE {p.counter} \cup SinceReady(SubSeq(log, 1, Len(log) - 1))

\* the environment dispatches a message event carrying `data` on the
\* document of e: the listener of e runs if it is attached
Inject(e, data, limit) ==
  /\ rpc[e].built
  /\ Len(injected) < limit
  /\ LET raw == [data EXCEPT !.obj.n = Len(injected) + 1]
     IN /\ rpc' = [rpc EXCEPT ![e] = IF @.attached THEN listener(@, e, raw) ELSE @]
        /\ injected' = Append(injected, raw)
  /\ UNCHANGED <<delivered, clock>>

\* rpc.destroy() by the application; `destroyed` records that it was called
Destroy(e) ==
  /\ rpc[e].built
  /\ rpc' = [rpc EXCEPT ![e] = [destroy(@) EXCEPT !.destroyed = TRUE]]
  /\ UNCHANGED <<delivered, injected, clock>>

\* the host creates the Participant
NewParticipant(e) ==
  /\ ~rpc[e].host.made
  /\ rpc' = [rpc EXCEPT ![e] = newParticipant(@, e)]
  /\ UNCHANGED <<delivered, injected, clock>>

\* participant.connect(options)
Connect(e) ==
  /\ rpc[e].host.made /\ rpc[e].host.ws = "none"
  /\ rpc' = [rpc EXCEPT ![e] = connect(@)]
  /\ UNCHANGED <<delivered, injected, clock>>

\* the frame fires its load event
FrameLoad(e) ==
  /\ rpc[e].host.frameListener
  /\ rpc' = [rpc EXCEPT ![e] = onFrameLoad(@, e)]
  /\ UNCHANGED <<delivered, injected, clock>>

\* the host passes a function: participant.add(method, fn),
\* participant.updateSettings(settings) or runOnRpc itself
RunOnRpc(e, fn) ==
  /\ rpc[e].host.made
  /\ Len(rpc[e].host.passed) < MaxFns
  /\ rpc' = [rpc EXCEPT ![e] = runOnRpc(@, e, fn)]
  /\ UNCHANGED <<delivered, injected, clock>>

\* participant.on(event, handler) by the host
On(e, event) ==
  /\ rpc[e].host.made
  /\ Len(rpc[e].host.events) < MaxListeners
  /\ rpc' = [rpc EXCEPT ![e] = on(@, e, event)]
  /\ UNCHANGED <<delivered, injected, clock>>

\* participant.destroy() by the host
ParticipantDestroy(e) ==
  /\ rpc[e].host.made
  /\ rpc' = [rpc EXCEPT ![e] = [participantDestroy(@) EXCEPT !.host.byHost = TRUE]]
  /\ UNCHANGED <<delivered, injected, clock>>

\* the websocket fires its close event: the server closed it, the closing
\* handshake is over, or the connection failed
WebsocketClose(e) ==
  /\ rpc[e].host.ws \in {"open", "closing", "failed"}
  /\ rpc' = [rpc EXCEPT ![e] = onWebsocketClose(@)]
  /\ UNCHANGED <<delivered, injected, clock>>

\* the websocket fires its error event, once: the connection has failed
\* and its close event is to follow
WebsocketError(e) ==
  /\ rpc[e].host.ws \in {"open", "closing"}
  /\ rpc' = [rpc EXCEPT ![e] = handleWebsocketError([@ EXCEPT !.host.ws = "failed"])]
  /\ UNCHANGED <<delivered, injected, clock>>

\* what the controls in the frame send: their 'ready', 'controlsReady'
\* (again when asked to resend), 'maximize'
ControlsPayloads ==
  {EnvReady(0, "1.0"), EnvInvocation("controlsReady", 1, TRUE),
   EnvInvocation("controlsReady", 2, TRUE), EnvInvocation("maximize", 2, TRUE),
   EnvInvocation("maximize", 3, TRUE)}

\* the functions the host passes
HostFns == {CallFn("updateSettings"), ExposeFn("foo", "hOk")}

\* SpecParticipant: a host creates a Participant, connects it, passes it
\* functions and may destroy it; the frame loads, the controls send their
\* packets, the websocket may close or fail.
NextParticipant ==
  \/ NewParticipant("A")
  \/ Connect("A")
  \/ FrameLoad("A")
  \/ \E fn \in HostFns : RunOnRpc("A", fn)
  \/ StateRank(rpc["A"].host.state) < StateRank("Closing") /\ ParticipantDestroy("A")
  \/ WebsocketClose("A")
  \/ WebsocketError("A")
  \/ \E data \in ControlsPayloads : Inject("A", data, MaxControls)

SpecParticipant == Init /\ [][NextParticipant]_vars

\* what the controls send to a host that listens: their 'ready',
\* 'controlsReady' (again when asked to resend), Invocations named after
\* the events of the Participant
OnPayloads ==
  {EnvReady(0, "1.0"), EnvInvocation("controlsReady", 1, TRUE),
   EnvInvocation("controlsReady", 2, TRUE), EnvInvocation("loaded", 1, TRUE),
   EnvInvocation("loaded", 2, TRUE), EnvInvocation("maximize", 2, TRUE)}

\* SpecOn: a host creates a Participant, connects it and registers
\* listeners for its events, before or after the frame loads; the controls
\* send their packets.
NextOn ==
  \/ NewParticipant("A")
  \/ Connect("A")
  \/ FrameLoad("A")
  \/ \E event \in OnEvents : On("A", event)
  \/ \E data \in OnPayloads : Inject("A", data, MaxControls)

SpecOn == Init /\ [][NextOn]_vars

\* what the server's clock is ahead of the local one, one-way latencies,
\* timestamps to convert (ms)
Skews == {-100, -3, 0, 10, 100}
Latencies == {0, 1, 10}
Timestamps == {0, 7, 1000}

\* new Clock(socket)
ClockNew ==
  /\ ~clock.built
  /\ clock' = newClock(clock)
  /\ UNCHANGED <<rpc, delivered, injected>>

\* the socket emits its first 'interactivePacket': sync() starts
InteractivePacket ==
  /\ clock.listening
  /\ clock' = sync([clock EXCEPT !.listening = FALSE], SyncRemaining, <<>>)
  /\ UNCHANGED <<rpc, delivered, injected>>

\* the getTime request reaches the server after `latency` and is answered
\* with the server's time
ServerAnswers(latency) ==
  /\ clock.call = "sent"
  /\ clock' = [clock EXCEPT !.now = @ + Ms(latency),
                            !.time = clock.now + Ms(latency) + Ms(clock.skew),
                            !.call = "answered",
                            !.lats = Append(@, <<latency>>)]
  /\ UNCHANGED <<rpc, delivered, injected>>

\* the answer reaches the controls after `latency`
AnswerArrives(latency) ==
  /\ clock.call = "answered"
  /\ clock' = onTime([clock EXCEPT !.now = @ + Ms(latency),
                                   !.lats[Len(clock.lats)] = Append(@, latency)])
  /\ UNCHANGED <<rpc, delivered, injected>>

\* the getTime call is rejected (Interactive was closed)
CallRejected ==
  /\ clock.call \in {"sent", "answered"}
  /\ clock' = onTimeError(clock)
  /\ UNCHANGED <<rpc, delivered, injected>>

\* the host asks for the conversion of a timestamp
Convert(fn, timestamp) ==
  /\ clock.built
  /\ Len(clock.waiting) + Len(clock.settled) < MaxConversions
  /\ clock' = awaitingThen(clock, [fn |-> fn, timestamp |-> Ms(timestamp),
                                   early |-> clock.awaiting # "resolved",
                                   outcome |-> "pending", value |-> 0])
  /\ UNCHANGED <<rpc, delivered, injected>>

\* SpecClock: a Clock synchronises with a server whose clock is ahead by
\* some skew, over a connection whose latency varies.
InitClock ==
  /\ rpc = [e \in Engines |-> NoEngine]
  /\ delivered = [e \in Engines |-> {}]
  /\ injected = <<>>
  /\ clock \in {[NoClock EXCEPT !.skew = d] : d \in Skews}

NextClock ==
  \/ ClockNew
  \/ InteractivePacket
  \/ \E latency \in Latencies : ServerAnswers(latency)
  \/ \E latency \in Latencies : AnswerArrives(latency)
  \/ CallRejected

SpecClock == InitClock /\ [][NextClock]_vars

\* SpecConvert: the host asks for conversions before, during and after a
\* synchronisation in which any getTime call may be rejected.
ConvertSkews == {-3, 10}
ConvertLatencies == {1}
ConvertTimestamps == {0, 7}

InitConvert ==
  /\ rpc = [e \in Engines |-> NoEngine]
  /\ delivered = [e \in Engines |-> {}]
  /\ injected = <<>>
  /\ clock \in {[NoClock EXCEPT !.skew = d] : d \in ConvertSkews}

NextConvert ==
  \/ ClockNew
  \/ InteractivePacket
  \/ \E latency \in ConvertLatencies : ServerAnswers(latency)
  \/ \E latency \in ConvertLatencies : AnswerArrives(latency)
  \/ CallRejected
  \/ \E fn \in {"remoteToLocal", "localToRemote"}, timestamp \in ConvertTimestamps :
       Convert(fn, timestamp)

SpecConvert == InitConvert /\ [][NextConvert]_vars

\* SpecRecv: the application exposes a handler for 'foo' at start-up (one
\* that returns or one that throws) and makes at most one call that waits;
\* the environment delivers packets, packets with a defect and non-objects.
NextRecv ==
  \/ Construct("A")
  \/ \E h \in {"hOk", "hThrow"} :
       injected = <<>> /\ rpc["A"].listeners["foo"] = <<>> /\ Expose("A", "foo", h)
  \/ rpc["A"].asked = <<>> /\ Call("A", "foo", TRUE)
  \/ \E data \in ValidPayloads \cup DefectPayloads \cup NonObjects : Inject("A", data, MaxInject)
  \/ \E r \in rpc["A"].running : Complete("A", r)

SpecRecv == Init /\ [][NextRecv]_vars

\* SpecCall: the application calls, the environment delivers replies.
NextCall ==
  \/ Construct("A")
  \/ \E w \in BOOLEAN : Call("A", "foo", w)
  \/ \E data \in ReplyPayloads : Inject("A", data, MaxInject)

SpecCall == Init /\ [][NextCall]_vars

\* SpecReset: the environment is a peer that stamps each counter once
\* between two 'ready' Invocations, behind a transport that reorders.
NextReset ==
  \/ Construct("A")
  \/ \E data \in PeerPayloads :
       /\ data.obj.method # "ready" => data.obj.counter \notin SinceReady(injected)
       /\ Inject("A", data, MaxPeerSends)

SpecReset == Init /\ [][NextReset]_vars

\* what a peer sends over the life of an engine: 'ready' of two versions,
\* an Invocation ahead of its turn, a Reply to the first call, and forged
\* 'ready' packets
LifePayloads ==
  {EnvReady(0, "1.1"), EnvReady(0, "1.2"), EnvInvocation("foo", 2, FALSE),
   EnvReply(1, 1, "r1", NoError),
   ForeignService(EnvReady(0, "1.3")), NoCounter(EnvReady(0, "1.3"))}

\* SpecLife: the application calls and, at some time, destroys the engine;
\* the environment goes on delivering before and after.
NextLife ==
  \/ Construct("A")
  \/ \E w \in BOOLEAN : Call("A", "foo", w)
  \/ \E data \in LifePayloads : Inject("A", data, MaxInject)
  \/ ~rpc["A"].destroyed /\ Destroy("A")

SpecLife == Init /\ [][NextLife]_vars

\* fire-and-forget Invocations of 'foo' with counters 0..4
DrainPayloads == {EnvInvocation("foo", c, TRUE) : c \in 0..4}

\* SpecDrain: the application exposes a handler for 'foo' at start-up (one
\* that returns or one that throws) or none; the environment delivers
\* Invocations in any order.
NextDrain ==
  \/ Construct("A")
  \/ \E h \in {"hOk", "hThrow"} :
       injected = <<>> /\ rpc["A"].listeners["foo"] = <<>> /\ Expose("A", "foo", h)
  \/ \E data \in DrainPayloads : Inject("A", data, MaxDrain)

SpecDrain == Init /\ [][NextDrain]_vars

\* Invocations of 'foo' that wait for a reply (callID 2c) and that do not
\* (callID 2c + 1), with counters c
ExposePayloads ==
  {[EnvInvocation("foo", c, d) EXCEPT !.obj.id = IF d THEN 2 * c + 1 ELSE 2 * c] :
     c \in {0, 1}, d \in BOOLEAN}

\* SpecExpose: the application exposes handlers for 'foo', of any kind and
\* at any time, also for a method that already has one; the environment
\* delivers Invocations of 'foo'.
NextExpose ==
  \/ Construct("A")
  \/ \E h \in Handlers :
       Len(rpc["A"].listeners["foo"]) < MaxHandlers /\ Expose("A", "foo", h)
  \/ \E data \in ExposePayloads : Inject("A", data, MaxInvocations)
  \/ \E r \in rpc["A"].running : Complete("A", r)

SpecExpose == Init /\ [][NextExpose]_vars

\* what a peer sends around its handshakes: 'ready' with sequence 0 and,
\* from a peer that had sent before, with sequence 3; Invocations of 'foo'
\* and of a method nobody exposes, waiting for a reply or not, each with
\* its own callID
ReadyPayloads ==
  {EnvReady(0, "1.1"), EnvReady(3, "1.2")}
    \cup {[EnvInvocation(v[1], v[2], v[3]) EXCEPT !.obj.id = 10 + v[2]] :
            v \in {<<"foo", 1, FALSE>>, <<"nope", 2, TRUE>>, <<"nope", 4, FALSE>>,
                   <<"foo", 5, TRUE>>}}

\* SpecReady: the application may expose a handler for 'ready' and for
\* 'foo' at start-up and makes calls; the environment delivers handshakes and
\* Invocations in any order.
NextReady ==
  \/ Construct("A")
  \/ \E m \in {"ready", "foo"} :
       injected = <<>> /\ rpc["A"].listeners[m] = <<>> /\ Expose("A", m, "hOk")
  \/ Call("A", "foo", FALSE)
  \/ \E data \in ReadyPayloads : Inject("A", data, MaxHandshake)
  \/ \E r \in rpc["A"].running : Complete("A", r)

SpecReady == Init /\ [][NextReady]_vars

\* SpecReload: two engines as in Spec, the application of B exposing its
\* handler at start-up; the page of A, whose application makes one call
\* and waits for the reply, may be loaded again, which replaces its engine
\* by a new instance.
NextReload ==
  \/ \E e \in Engines : Construct(e)
  \/ /\ rpc["B"].listeners["foo"] = <<>> /\ rpc["B"].dispatched = <<>>
     /\ Expose("B", "foo", "hOk")
  \/ rpc["A"].asked = <<>> /\ Call("A", "foo", TRUE)
  \/ Reload("A")
  \/ \E e \in Engines : \E i \in 1..Len(rpc[Peer(e)].outbox) : Deliver(e, i)
  \/ \E r \in rpc["B"].running : Complete("B", r)

SpecReload == Init /\ [][NextReload]_vars

\* Invocations a peer names after the engine's own events, and one of 'foo'
EventPayloads ==
  {[EnvInvocation(v[1], v[2], v[3]) EXCEPT !.obj.id = 10 + v[2]] :
     v \in {<<"recvMethod", 0, FALSE>>, <<"sendReply", 1, FALSE>>, <<"destroy", 1, TRUE>>,
            <<"foo", 0, FALSE>>}}

\* SpecEvents: the application watches the engine through listeners on its
\* events, calls and destroys it; the environment delivers Invocations.
NextEvents ==
  \/ Construct("A")
  \/ \E event \in LifecycleEvents :
       rpc["A"].listeners[event] = <<>> /\ injected = <<>> /\ OnEvent("A", event)
  \/ rpc["A"].asked = <<>> /\ Call("A", "foo", FALSE)
  \/ \E data \in EventPayloads : Inject("A", data, MaxInject)
  \/ ~rpc["A"].destroyed /\ Destroy("A")

SpecEvents == Init /\ [][NextEvents]_vars

\* SpecHandle: the application exposes one handler for 'foo', one that
\* returns, at any time; the environment delivers Invocations of 'foo'.
NextHandle ==
  \/ Construct("A")
  \/ \E h \in {"hOk", "hAlt"} : rpc["A"].listeners["foo"] = <<>> /\ Expose("A", "foo", h)
  \/ \E data \in ExposePayloads : Inject("A", data, MaxInvocations)
  \/ \E r \in rpc["A"].running : Complete("A", r)

SpecHandle == Init /\ [][NextHandle]_vars

----------------------------------------------------------------------------
(* SpecControls: a ControlsState is handed packets of the Interactive      *)
(* service, among them replies and methods it does not know.               *)

NoPacketParams ==
  [sceneID |-> "", controls |-> <<>>, scenes |-> <<>>, groups |-> <<>>,
   groupID |-> "", participants |-> <<>>]

Incoming(type, method, params) == [type |-> type, method |-> method, params |-> params]

Control(controlID, kind, cost) == [controlID |-> controlID, kind |-> kind, cost |-> cost]

ControlIDs == {"c1", "c2"}

IncomingPackets ==
  {Incoming("method", "onSceneCreate",
     [NoPacketParams EXCEPT !.scenes =
        <<[sceneID |-> "s1", controls |-> <<Control("c1", "button", 0),
                                            Control("c2", "joystick", 5)>>]>>]),
   Incoming("method", "onSceneCreate",
     [NoPacketParams EXCEPT !.scenes =
        <<[sceneID |-> "s1", controls |-> <<Control("c2", "button", 5)>>],
          [sceneID |-> "s2", controls |-> <<>>]>>]),
   Incoming("method", "onControlCreate",
     [NoPacketParams EXCEPT !.sceneID = "s1",
                            !.controls = <<Control("c1", "joystick", 5)>>]),
   Incoming("method", "onControlUpdate",
     [NoPacketParams EXCEPT !.sceneID = "s1",
                            !.controls = <<Control("c2", "button", 0)>>]),
   Incoming("method", "onControlUpdate",
     [NoPacketParams EXCEPT !.sceneID = "s2",
                            !.controls = <<Control("c1", "button", 5),
                                           Control("c1", "button", 0)>>]),
   Incoming("method", "onSceneDelete", [NoPacketParams EXCEPT !.sceneID = "s1"]),
   Incoming("method", "onGroupCreate",
     [NoPacketParams EXCEPT !.groups = <<[groupID |-> "default", sceneID |-> "s1"]>>]),
   Incoming("method", "onGroupUpdate",
     [NoPacketParams EXCEPT !.groups = <<[groupID |-> "default", sceneID |-> "s2"],
                                         [groupID |-> "g", sceneID |-> "s1"]>>]),
   Incoming("method", "onGroupDelete", [NoPacketParams EXCEPT !.groupID = "default"]),
   Incoming("method", "onParticipantJoin",
     [NoPacketParams EXCEPT !.participants = <<[groupID |-> "default"]>>]),
   Incoming("method", "onParticipantUpdate",
     [NoPacketParams EXCEPT !.participants = <<[groupID |-> "g"]>>]),
   Incoming("reply", "onSceneDelete", [NoPacketParams EXCEPT !.sceneID = "s1"]),
   Incoming("reply", "onGroupUpdate",
     [NoPacketParams EXCEPT !.groups = <<[groupID |-> "default", sceneID |-> "s2"]>>]),
   Incoming("method", "onReady", NoPacketParams)}

\* this.controls.handleIncomingPacket(p)
HandleIncomingPacket(e, packet) ==
  /\ Len(rpc[e].host.incoming) < MaxPackets
  /\ rpc' = [rpc EXCEPT ![e].host.controls = handleIncomingPacket(@, packet),
                        ![e].host.incoming = Append(@, packet)]
  /\ UNCHANGED <<delivered, injected, clock>>

NextControls == \E packet \in IncomingPackets : HandleIncomingPacket("A", packet)

SpecControls == Init /\ [][NextControls]_vars

----------------------------------------------------------------------------
(* History read by the properties *)

\* the packets e has transmitted, in order
Sent(e) == [k \in 1..Len(rpc[e].outbox) |-> rpc[e].outbox[k].obj]

\* the positions, in the sender's transmissions, of the packets e dispatched
DispatchedNs(e) == [k \in 1..Len(rpc[e].dispatched) |-> rpc[e].dispatched[k].n]

\* the counters of the packets e dispatched, in dispatch order
DispatchedCounters(e) ==
  [k \in 1..Len(rpc[e].dispatched) |-> rpc[e].dispatched[k].counter]

Increasing(seq) == \A i, j \in 1..Len(seq) : i < j => seq[i] < seq[j]

Range(seq) == {seq[k] : k \in 1..Len(seq)}

\* the transport holds nothing and no handler is still running
Quiescent ==
  /\ \A e \in Engines : rpc[e].built /\ delivered[e] = 1..Len(rpc[Peer(e)].outbox)
  /\ \A e \in Engines : rpc[e].running = {}

\* the 'ready' Invocation the constructor of e transmits
ReadyOf(e) ==
  [MethodPacket(0, "ready", [protocolVersion |-> OwnVersion(e)], TRUE)
     EXCEPT !.counter = 0, !.ctype = "number", !.n = 1, !.src = e]

----------------------------------------------------------------------------
(* Claims checked under Spec *)

\* C1: for one direction, the receiver never dispatches a message before a
\* message the same sender transmitted earlier: the packets an engine has
\* dispatched are in the order in which its peer transmitted them.
C1_DispatchInSendOrder == \A e \in Engines : Increasing(DispatchedNs(e))

\* C3: every message an engine transmits is eventually dispatched by its
\* peer: once the transport has delivered everything and no handler is
\* running, every transmitted message has been dispatched and no reorder
\* buffer holds anything.
C3_EverythingDispatched ==
  Quiescent =>
    \A e \in Engines :
      /\ Range(DispatchedNs(e)) = 1..Len(rpc[Peer(e)].outbox)
      /\ rpc[e].remoteCallQueue = <<>>

\* C5: when B dispatches an Invocation and no handler is exposed for its
\* method, B transmits exactly one Reply with the Invocation's callID and
\* error code 4003; when A dispatches that Reply for a call it made with
\* waitForReply, the pending call rejects with an RPCError of code 4003;
\* and B goes on dispatching: after a message is handled nothing runnable
\* is left in B's reorder buffer.
C5_UnknownMethod ==
  /\ \A k \in 1..Len(rpc["B"].dispatched) :
       LET p == rpc["B"].dispatched[k]
       IN (p.type = "method" /\ \A v \in Range(rpc["B"].invoked) : v.n # p.n)
            => Cardinality({j \in 1..Len(rpc["B"].outbox) :
                              /\ Sent("B")[j].type = "reply"
                              /\ Sent("B")[j].id = p.id
                              /\ Sent("B")[j].error.present
                              /\ Sent("B")[j].error.code = 4003}) = 1
  /\ \A k \in 1..Len(rpc["A"].dispatched) :
       LET r == rpc["A"].dispatched[k]
       IN (/\ r.type = "reply" /\ r.error.present /\ r.error.code = 4003
           /\ \E j \in 1..Len(rpc["A"].outbox) :
                 /\ Sent("A")[j].type = "method"
                 /\ Sent("A")[j].id = r.id /\ ~Sent("A")[j].discard)
            => \E s \in Range(rpc["A"].settled) :
                 /\ s.id = r.id /\ s.by = r.n
                 /\ s.how = "reject" /\ s.error.name = "RPCError" /\ s.error.code = 4003
  /\ ~rpc["B"].threw
  /\ \A k \in 1..Len(rpc["B"].remoteCallQueue) :
       rpc["B"].remoteCallQueue[k].counter > rpc["B"].lastSequentialCall + 1

\* a call of A was rejected with code 4003 after B, with messages buffered
\* behind it, dispatched the Invocation without a handler
C5_Witness ==
  /\ \E s \in Range(rpc["A"].settled) : s.how = "reject" /\ s.error.code = 4003 /\ s.id >= 1
  /\ Len(rpc["B"].dispatched) >= 3
  /\ rpc["B"].listeners["foo"] = <<>>

\* C8: constructing an engine transmits exactly one message, the
\* fire-and-forget 'ready' Invocation with callID 0, sequence 0 and the
\* engine's own protocol version, and creates no pending call; the next
\* message the engine transmits, absent a received 'ready', has sequence 1.
C8_Construction ==
  [][\A e \in Engines :
       /\ (~rpc[e].built /\ rpc'[e].built) =>
            /\ rpc'[e].outbox = <<JSONstringify(ReadyOf(e))>>
            /\ rpc'[e].calls = {}
            /\ rpc'[e].callCounter = 1
       /\ (/\ Len(rpc[e].outbox) = 1 /\ Len(rpc'[e].outbox) > 1
           /\ rpc'[e].remoteProtocolVersion = "undefined") =>
            /\ rpc'[e].outbox[2].obj.counter = 1
            /\ 0 \notin rpc'[e].calls]_vars

\* an engine that has received no 'ready' has transmitted a second message
C8_Witness ==
  \E e \in Engines :
    /\ Len(rpc[e].outbox) >= 2
    /\ rpc[e].remoteProtocolVersion = "undefined"
    /\ rpc[e].outbox[2].obj.counter = 1

----------------------------------------------------------------------------
(* Claims checked under SpecRecv *)

\* the last payload the environment delivered
LastInjected == injected[Len(injected)]

\* the well-formed packets among the delivered payloads, in order of delivery
RECURSIVE WellFormedOf(_)
WellFormedOf(log) ==
  IF log = <<>> THEN <<>>
  ELSE IF WellFormed(Head(log)) THEN <<Head(log).obj>> \o WellFormedOf(Tail(log))
  ELSE WellFormedOf(Tail(log))

\* the counters handed to the handlers, in order of invocation
InvokedCounters(e) == [k \in 1..Len(rpc[e].invoked) |-> rpc[e].invoked[k].counter]

\* C2: starting from the initial cursor (or from a cursor just set by a
\* 'ready' with sequence 0), when the N Invocations of an exposed method
\* with the N sequence numbers that follow the cursor have been delivered,
\* in any order and with no other packet between them, the handler has been
\* invoked exactly N times, in increasing sequence order, without gap or
\* repeat.
C2_BatchHandledInOrder ==
  LET packets == WellFormedOf(injected)
      first == IF packets # <<>> /\ packets[1].method = "ready" /\ packets[1].counter = 0
                 THEN 1 ELSE 0
      batch == SubSeq(packets, first + 1, Len(packets))
      N == Len(batch)
  IN (/\ N >= 1
      /\ \A k \in 1..N : batch[k].type = "method" /\ batch[k].method = "foo"
      /\ {batch[k].counter : k \in 1..N} = first..(first + N - 1)
      /\ rpc["A"].listeners["foo"] # <<>>
      /\ rpc["A"].since["foo"] = 0)
       => InvokedCounters("A") = [k \in 1..N |-> first + k - 1]

\* the parts of an engine a dropped payload must leave alone
EngineState(e) ==
  <<rpc[e].lastSequentialCall, rpc[e].remoteCallQueue, rpc[e].callCounter,
    rpc[e].remoteProtocolVersion, rpc[e].calls, rpc[e].idCounter, rpc[e].running,
    rpc[e].outbox, rpc[e].dispatched, rpc[e].invoked, rpc[e].settled>>

\* C6: a payload with another serviceID, with a type other than 'method'
\* and 'reply', or without a numeric counter is dropped: the step that
\* delivers it invokes no handler, settles no call, transmits nothing and
\* leaves the cursor, the reorder buffer, the outgoing counter and the
\* remote version as they were, and the listener returns normally.
C6_DefectDropped ==
  [][(/\ Len(injected') = Len(injected) + 1
      /\ injected'[Len(injected')].json = "object"
      /\ ~WellFormed(injected'[Len(injected')]))
       => /\ EngineState("A")' = EngineState("A")
          /\ ~rpc'["A"].threw]_vars

\* a forged 'ready' was delivered while a call was pending and a packet
\* was waiting in the reorder buffer
C6_Witness ==
  /\ injected # <<>>
  /\ LastInjected.json = "object" /\ ~WellFormed(LastInjected)
  /\ LastInjected.obj.method = "ready"
  /\ rpc["A"].calls # {}
  /\ rpc["A"].remoteCallQueue # <<>>
  /\ rpc["A"].remoteProtocolVersion = "undefined"

\* C7: whatever payload is delivered, malformed ones included (text that
\* is not JSON, null, a non-object), the listener returns normally: after a
\* malformed payload was delivered the listener has not raised.
C7_MalformedTolerated ==
  (injected # <<>> /\ LastInjected.json # "object") => ~rpc["A"].threw

----------------------------------------------------------------------------
(* Claims checked under SpecCall *)

Min(S) == CHOOSE x \in S : \A y \in S : x <= y

\* where in e's dispatch log the replies with callID c are
RepliesTo(e, c) ==
  {k \in 1..Len(rpc[e].dispatched) :
     rpc[e].dispatched[k].type = "reply" /\ rpc[e].dispatched[k].id = c}

SettledFor(e, c) == {k \in 1..Len(rpc[e].settled) : rpc[e].settled[k].id = c}

\* the positions in e's dispatch log, among those in `ks`, of the replies
\* with callID c
RepliesAmong(log, ks, c) == {k \in ks : log[k].type = "reply" /\ log[k].id = c}

\* C4: a call made with waitForReply is given a pending entry under its
\* callID c; when a Reply with id c is dispatched while the call is pending,
\* the call resolves with exactly that Reply's result if the Reply has no
\* error, and rejects with an RPCError of the same code, message and path
\* if it has one; until then the call stays pending.
C4_ReplySettlesCall ==
  [][/\ \A c \in (Len(rpc["A"].asked) + 1)..Len(rpc'["A"].asked) :
          rpc'["A"].asked[c].waitForReply =>
            c \in rpc'["A"].calls /\ SettledFor("A", c)' = {}
     /\ \A c \in rpc["A"].calls :
          LET log == rpc'["A"].dispatched
              new == RepliesAmong(log, (Len(rpc["A"].dispatched) + 1)..Len(log), c)
          IN IF new = {}
               THEN c \in rpc'["A"].calls /\ SettledFor("A", c)' = {}
               ELSE LET r == log[Min(new)]
                    IN /\ c \notin rpc'["A"].calls
                       /\ Cardinality(SettledFor("A", c)') = 1
                       /\ \A k \in SettledFor("A", c)' :
                            LET s == rpc'["A"].settled[k]
                            IN /\ s.by = r.n
                               /\ IF r.error.present
                                    THEN /\ s.how = "reject"
                                         /\ s.error =
                                              [name |-> "RPCError", code |-> r.error.code,
                                               message |-> r.error.message,
                                               path |-> r.error.path,
                                               hasPath |-> r.error.hasPath]
                                    ELSE s.how = "resolve" /\ s.value = r.result]_vars

\* one call was resolved with a result and another rejected with an error
C4_Witness ==
  /\ \E s \in Range(rpc["A"].settled) : s.how = "resolve" /\ s.value = "r2"
  /\ \E s \in Range(rpc["A"].settled) : s.how = "reject" /\ s.error.code = 4000

\* the callIDs of the calls the application made without waiting
FireAndForget(e) ==
  {c \in 1..Len(rpc[e].asked) : ~rpc[e].asked[c].waitForReply}

\* C10: call(method, params, false) transmits the Invocation marked
\* fire-and-forget, returns no promise and adds no entry to the pending-call
\* table; a Reply with that callID, when dispatched, settles nothing and
\* leaves the table as it was.
C10_FireAndForget ==
  [][/\ \A c \in FireAndForget("A")' :
          /\ \E j \in 1..Len(rpc'["A"].outbox) :
                LET p == rpc'["A"].outbox[j].obj
                IN p.type = "method" /\ p.id = c /\ p.discard
          /\ \E k \in 1..Len(rpc'["A"].returns) :
                rpc'["A"].returns[k] = [id |-> c, value |-> "undefined"]
          /\ c \notin rpc'["A"].calls
          /\ SettledFor("A", c)' = {}
     /\ (/\ Len(rpc'["A"].dispatched) > Len(rpc["A"].dispatched)
         /\ \A k \in (Len(rpc["A"].dispatched) + 1)..Len(rpc'["A"].dispatched) :
               rpc'["A"].dispatched[k].id \in FireAndForget("A"))
          => /\ rpc'["A"].calls = rpc["A"].calls
             /\ rpc'["A"].settled = rpc["A"].settled]_vars

\* a Reply naming a fire-and-forget call was dispatched while another call
\* was pending
C10_Witness ==
  /\ \E c \in FireAndForget("A") : RepliesTo("A", c) # {}
  /\ rpc["A"].calls # {}

----------------------------------------------------------------------------
(* Claims checked under SpecReset *)

\* the position in e's dispatch log of the i-th delivered payload, 0 if it
\* has not been dispatched
DispatchedAt(e, i) ==
  LET ks == {k \in 1..Len(rpc[e].dispatched) : rpc[e].dispatched[k].n = i}
  IN IF ks = {} THEN 0 ELSE Min(ks)

\* the counters of the packets that arrived after the i-th payload, in the
\* order in which e dispatched them
RECURSIVE ArrivedAfter(_, _)
ArrivedAfter(log, i) ==
  IF log = <<>> THEN <<>>
  ELSE IF Head(log).n > i THEN <<Head(log).counter>> \o ArrivedAfter(Tail(log), i)
  ELSE ArrivedAfter(Tail(log), i)

\* C9: after the engine has dispatched sequences 0..k (k >= 1), a 'ready'
\* with sequence 0 resets the cursor so that the messages the peer sends
\* afterwards with sequences 1, 2, 3, ... are dispatched in increasing
\* order whatever order they arrive in, and none of them stays in the
\* reorder buffer once the sequences before it have arrived.
C9_ResetThenInOrder ==
  \A i \in 1..Len(injected) :
    LET d == DispatchedAt("A", i)
        before == SubSeq(DispatchedCounters("A"), 1, d - 1)
        arrived == {injected[j].obj.counter : j \in (i + 1)..Len(injected)}
    IN (/\ injected[i].obj.method = "ready"
        /\ \A j \in (i + 1)..Len(injected) : injected[j].obj.method # "ready"
        /\ d >= 3
        /\ before = [k \in 1..(d - 1) |-> k - 1])
         => /\ Increasing(ArrivedAfter(rpc["A"].dispatched, i))
            /\ \A m \in 1..Len(injected) :
                 (1..m) \subseteq arrived =>
                   (1..m) \subseteq Range(ArrivedAfter(rpc["A"].dispatched, i))

----------------------------------------------------------------------------
(* Claims checked under SpecExpose and SpecHandle *)

\* the transmissions of e that are Replies with callID c, with or without
\* an error
RepliesSent(e, c, withError) ==
  {j \in 1..Len(rpc[e].outbox) :
     /\ Sent(e)[j].type = "reply" /\ Sent(e)[j].id = c
     /\ Sent(e)[j].error.present = withError}

\* C11: when an Invocation that waits for a reply is dispatched to an
\* exposed handler and the handler throws or returns a promise that
\* rejects, the engine transmits an error Reply with the Invocation's callID,
\* and the engine goes on: the listener does not raise and nothing runnable
\* is left in the reorder buffer.
C11_HandlerFailureReplied ==
  /\ \A k \in 1..Len(rpc["A"].invoked) :
       LET v == rpc["A"].invoked[k]
       IN (HandlerOutcome(v.h) \in {"throw", "reject"} /\ ~v.discard)
            => RepliesSent("A", v.id, TRUE) # {}
  /\ ~rpc["A"].threw
  /\ \A k \in 1..Len(rpc["A"].remoteCallQueue) :
       rpc["A"].remoteCallQueue[k].counter > rpc["A"].lastSequentialCall + 1

\* the Invocations of method m that e dispatched when m had a handler
Handled(e, m) ==
  {k \in (rpc[e].since[m] + 1)..Len(rpc[e].dispatched) :
     rpc[e].dispatched[k].type = "method" /\ rpc[e].dispatched[k].method = m}

\* C12: while 'foo' has exactly one exposed handler and that handler
\* completes successfully, every dispatched Invocation of 'foo' has invoked
\* the handler exactly once; for every callID of Invocations that wait, the
\* Replies transmitted with it carry the handler's result and no error and
\* are, with the handlers still running, as many as the Invocations
\* dispatched with it; no Reply is transmitted for a fire-and-forget
\* Invocation.
C12_OneHandlerOneReply ==
  (/\ Len(rpc["A"].listeners["foo"]) = 1
   /\ HandlerOutcome(rpc["A"].listeners["foo"][1]) = "return")
    => /\ \A k \in Handled("A", "foo") :
            Cardinality({i \in 1..Len(rpc["A"].invoked) :
                           rpc["A"].invoked[i].n = rpc["A"].dispatched[k].n}) = 1
       /\ \A c \in 0..3 :
            /\ Cardinality(RepliesSent("A", c, FALSE))
                 + Cardinality({r \in rpc["A"].running : r.id = c})
                 = Cardinality({k \in Handled("A", "foo") :
                                  /\ rpc["A"].dispatched[k].id = c
                                  /\ ~rpc["A"].dispatched[k].discard})
            /\ \A j \in RepliesSent("A", c, FALSE) :
                 Sent("A")[j].result = HandlerResult(rpc["A"].listeners["foo"][1])
            /\ Cardinality(RepliesSent("A", c, TRUE))
                 = Cardinality({k \in 1..rpc["A"].since["foo"] :
                                  rpc["A"].dispatched[k].id = c})

\* with one handler exposed, a fire-and-forget Invocation and an Invocation
\* that waits were dispatched and the handler's reply was transmitted
C12_Witness ==
  /\ rpc["A"].listeners["foo"] = <<"hAlt">>
  /\ \E k \in Handled("A", "foo") : rpc["A"].dispatched[k].discard
  /\ \E k \in Handled("A", "foo") :
       /\ ~rpc["A"].dispatched[k].discard
       /\ RepliesSent("A", rpc["A"].dispatched[k].id, FALSE) # {}
  /\ rpc["A"].running = {}

\* C13: after expose('foo', h1) and then expose('foo', h2), a dispatched
\* Invocation of 'foo' invokes only h2, and for an Invocation that waits
\* exactly one Reply with its callID is transmitted (once no handler is
\* still running).
C13_LastRegistrationWins ==
  /\ \A i \in 1..Len(rpc["A"].invoked) :
       rpc["A"].invoked[i].among = 2 =>
         rpc["A"].invoked[i].h = rpc["A"].listeners["foo"][2]
  /\ (/\ Len(rpc["A"].listeners["foo"]) = 2
      /\ rpc["A"].since["foo"] = 0
      /\ \A i \in 1..Len(rpc["A"].invoked) : rpc["A"].invoked[i].among = 2
      /\ \A i \in 1..2 : HandlerOutcome(rpc["A"].listeners["foo"][i]) = "return"
      /\ rpc["A"].running = {})
       => \A k \in Handled("A", "foo") :
            LET p == rpc["A"].dispatched[k]
            IN (~p.discard
                /\ Cardinality({j \in Handled("A", "foo") : rpc["A"].dispatched[j].id = p.id}) = 1)
                 => Cardinality(RepliesSent("A", p.id, FALSE)) = 1

----------------------------------------------------------------------------
(* Claims checked under SpecLife *)

\* a step in which the environment delivers a payload
Delivery == Len(injected') = Len(injected) + 1

\* C14: destroy() detaches the listener: a payload delivered afterwards is
\* not dispatched and changes neither the cursor, the reorder buffer, the
\* pending-call table, the outgoing counter nor the remote version;
\* destroy() itself settles no call and empties neither the pending-call
\* table nor the reorder buffer, and a call pending at destroy() stays
\* pending.
C14_Destroy ==
  [][/\ (~rpc["A"].destroyed /\ rpc'["A"].destroyed) =>
          /\ EngineState("A")' = EngineState("A")
          /\ rpc'["A"].threw = rpc["A"].threw
     /\ rpc["A"].destroyed =>
          /\ Delivery => EngineState("A")' = EngineState("A")
          /\ rpc'["A"].dispatched = rpc["A"].dispatched
          /\ rpc'["A"].settled = rpc["A"].settled
          /\ rpc["A"].calls \subseteq rpc'["A"].calls]_vars

\* the engine was destroyed with a call pending and a packet in the reorder
\* buffer, and the Reply to that call, next in sequence, was delivered
\* afterwards
C14_Witness ==
  /\ rpc["A"].destroyed
  /\ 1 \in rpc["A"].calls
  /\ rpc["A"].remoteCallQueue # <<>>
  /\ injected # <<>>
  /\ LastInjected.obj.type = "reply" /\ LastInjected.obj.id = 1
  /\ LastInjected.obj.n > Len(rpc["A"].dispatched) + Len(rpc["A"].remoteCallQueue)
  /\ LastInjected.obj.counter = rpc["A"].lastSequentialCall + 1

\* C15: remoteVersion() is undefined until the first valid 'ready' is
\* received; receiving a valid 'ready' makes it the protocolVersion that
\* 'ready' carries; no other step changes it.
C15_RemoteVersion ==
  /\ remoteVersion(rpc["A"]) = "undefined"
  /\ [][IF /\ Delivery /\ rpc["A"].attached
           /\ WellFormed(injected'[Len(injected')])
           /\ injected'[Len(injected')].obj.type = "method"
           /\ injected'[Len(injected')].obj.method = "ready"
          THEN remoteVersion(rpc'["A"]) = injected'[Len(injected')].obj.params.protocolVersion
          ELSE remoteVersion(rpc'["A"]) = remoteVersion(rpc["A"])]_vars

\* after a 'ready' of version 1.1 a 'ready' of version 1.2 was received,
\* and then a forged 'ready' of version 1.3
C15_Witness ==
  /\ Len(injected) >= 3
  /\ injected[1] = [EnvReady(0, "1.1") EXCEPT !.obj.n = 1]
  /\ injected[2].obj.params.protocolVersion = "1.2" /\ WellFormed(injected[2])
  /\ ~WellFormed(injected[3]) /\ injected[3].obj.params.protocolVersion = "1.3"
  /\ rpc["A"].attached
  /\ remoteVersion(rpc["A"]) = "1.2"

\* the callIDs e allocated, in order of allocation
AllocatedIds(e) == [k \in 1..Len(rpc[e].returns) |-> rpc[e].returns[k].id]

\* C17: every call() allocates a callID strictly greater than every callID
\* the instance allocated before, also after a 'ready' was received; the
\* callID of a new call is not in the pending-call table, so no entry is
\* overwritten and no two pending calls share a callID.
C17_FreshCallIds ==
  [][/\ Increasing(AllocatedIds("A"))'
     /\ \A k \in (Len(rpc["A"].returns) + 1)..Len(rpc'["A"].returns) :
          /\ rpc'["A"].returns[k].id \notin rpc["A"].calls
          /\ \A j \in 1..(k - 1) : rpc'["A"].returns[j].id < rpc'["A"].returns[k].id]_vars

\* a call was made while an earlier call was pending, after a 'ready' had
\* been received and another call had been settled
C17_Witness ==
  /\ Len(rpc["A"].returns) >= 3
  /\ remoteVersion(rpc["A"]) # "undefined"
  /\ rpc["A"].settled # <<>>
  /\ Cardinality(rpc["A"].calls) >= 1
  /\ rpc["A"].returns[Len(rpc["A"].returns)].id \in rpc["A"].calls
  /\ rpc["A"].callCounter < Len(rpc["A"].outbox)

----------------------------------------------------------------------------
(* Claims checked under SpecReady *)

\* a step in which the listener of A is given a valid 'ready' Invocation
ReadyReceived ==
  /\ Delivery /\ rpc["A"].attached
  /\ WellFormed(injected'[Len(injected')])
  /\ injected'[Len(injected')].obj.type = "method"
  /\ injected'[Len(injected')].obj.method = "ready"

\* what e transmits in a step
NewlySent(e) ==
  [k \in 1..(Len(rpc'[e].outbox) - Len(rpc[e].outbox)) |->
     rpc'[e].outbox[Len(rpc[e].outbox) + k].obj]

\* what e dispatches in a step
NewlyDispatched(e) ==
  [k \in 1..(Len(rpc'[e].dispatched) - Len(rpc[e].dispatched)) |->
     rpc'[e].dispatched[Len(rpc[e].dispatched) + k]]

\* C22: a valid 'ready' with sequence s is dispatched in the step in which
\* it arrives, before anything else, and is not placed in the reorder
\* buffer, whatever s and the cursor are; the outgoing counter is 0 before
\* anything is transmitted in response, so the first message transmitted in
\* that step or, if none is, in a later step carries sequence 0.
C22_ReadyDispatchedAtOnce ==
  [][/\ ReadyReceived =>
          /\ NewlyDispatched("A") # <<>>
          /\ NewlyDispatched("A")[1] = injected'[Len(injected')].obj
          /\ \A k \in 1..Len(rpc'["A"].remoteCallQueue) :
                rpc'["A"].remoteCallQueue[k].n # injected'[Len(injected')].obj.n
          /\ IF NewlySent("A") # <<>>
                THEN NewlySent("A")[1].counter = 0
                ELSE rpc'["A"].callCounter = 0
     /\ (~ReadyReceived /\ rpc["A"].callCounter = 0 /\ NewlySent("A") # <<>>)
          => NewlySent("A")[1].counter = 0]_vars

\* the positions, among the delivered payloads, of the valid 'ready'
\* Invocations
Readies ==
  {i \in 1..Len(injected) :
     /\ WellFormed(injected[i])
     /\ injected[i].obj.type = "method" /\ injected[i].obj.method = "ready"}

\* a second 'ready', with sequence 3, arrived while the cursor was
\* elsewhere and a packet was waiting in the reorder buffer; it was
\* dispatched, and the message transmitted after it carries sequence 0
C22_Witness ==
  /\ Readies = {1, 3}
  /\ injected[3].obj.counter = 3
  /\ injected[2].obj.counter = 5
  /\ rpc["A"].dispatched[Len(rpc["A"].dispatched)].n = 3
  /\ rpc["A"].remoteCallQueue # <<>>
  /\ Len(rpc["A"].outbox) >= 3
  /\ Sent("A")[Len(rpc["A"].outbox)].counter = 0
  /\ Sent("A")[Len(rpc["A"].outbox) - 1].counter > 0

\* C23: every message an engine transmits is stamped with the outgoing
\* counter, which then increases by one; the counter becomes 0 only at
\* construction and when a valid 'ready' is received: the stamps of the
\* messages transmitted in a step follow the counter (0 after such a
\* reset) without gap or repeat, and the counter ends after the last one.
C23_StampsFollowCounter ==
  [][LET reset == ReadyReceived \/ (~rpc["A"].built /\ rpc'["A"].built)
         base == IF reset THEN 0 ELSE rpc["A"].callCounter
     IN /\ \A k \in 1..Len(NewlySent("A")) : NewlySent("A")[k].counter = base + k - 1
        /\ rpc'["A"].callCounter = base + Len(NewlySent("A"))
        /\ Len(rpc'["A"].outbox) >= Len(rpc["A"].outbox)]_vars

\* after a received 'ready' the engine transmitted an Invocation, the
\* Reply of a handler and an unknown-method Reply, stamped 0, 1 and 2
C23_Witness ==
  \E j \in 2..(Len(rpc["A"].outbox) - 2) :
    /\ Readies # {}
    /\ \A k \in 0..2 : Sent("A")[j + k].counter = k
    /\ \E k \in 0..2 : Sent("A")[j + k].type = "method"
    /\ \E k \in 0..2 : Sent("A")[j + k].type = "reply" /\ ~Sent("A")[j + k].error.present
    /\ \E k \in 0..2 : Sent("A")[j + k].type = "reply" /\ Sent("A")[j + k].error.present

\* the Invocations among `packets` for whose method e has no handler
RECURSIVE Unhandled(_, _)
Unhandled(e, packets) ==
  IF packets = <<>> THEN <<>>
  ELSE IF Head(packets).type = "method" /\ rpc[e].listeners[Head(packets).method] = <<>>
    THEN <<Head(packets)>> \o Unhandled(e, Tail(packets))
  ELSE Unhandled(e, Tail(packets))

\* C25: for every dispatched Invocation whose method has no handler the
\* engine transmits exactly one Reply with the Invocation's callID, result
\* null and error {4003, 'Unknown method name'}, taking one sequence
\* number, whether or not the Invocation is fire-and-forget: what a
\* delivery makes the engine transmit is one such Reply for each such
\* Invocation it dispatches, in order; a received 'ready' without a 'ready'
\* handler is answered with such a Reply stamped 0.
C25_UnknownMethodReply ==
  [][Delivery =>
       LET unknown == Unhandled("A", NewlyDispatched("A"))
       IN /\ Len(NewlySent("A")) = Len(unknown)
          /\ \A k \in 1..Len(unknown) :
               /\ NewlySent("A")[k].type = "reply"
               /\ NewlySent("A")[k].id = unknown[k].id
               /\ NewlySent("A")[k].result = "null"
               /\ NewlySent("A")[k].error = UnknownMethodError
               /\ k > 1 => NewlySent("A")[k].counter = NewlySent("A")[k - 1].counter + 1
          /\ rpc'["A"].callCounter =
               (IF ReadyReceived THEN 0 ELSE rpc["A"].callCounter) + Len(unknown)
          /\ (ReadyReceived /\ rpc["A"].listeners["ready"] = <<>>) =>
               /\ NewlySent("A")[1].id = injected'[Len(injected')].obj.id
               /\ NewlySent("A")[1].counter = 0]_vars

\* a 'ready' without a handler was answered with the Reply stamped 0; a
\* fire-and-forget Invocation of an unknown method, released from the
\* reorder buffer behind an Invocation with a handler, with the Reply
\* stamped next
C25_Witness ==
  /\ rpc["A"].listeners["ready"] = <<>> /\ rpc["A"].listeners["foo"] # <<>>
  /\ Len(rpc["A"].outbox) = 3
  /\ LET a == Sent("A")[2]
         b == Sent("A")[3]
     IN /\ a.type = "reply" /\ a.error = UnknownMethodError /\ a.counter = 0
        /\ a.id = injected[1].obj.id
        /\ b.type = "reply" /\ b.error = UnknownMethodError /\ b.counter = 1
        /\ b.id = 12
  /\ DispatchedNs("A") = <<1, 3, 2>>
  /\ rpc["A"].dispatched[3].method = "nope" /\ rpc["A"].dispatched[3].discard

----------------------------------------------------------------------------
(* Settling, checked under SpecCall *)

\* C24: each pending call is settled at most once: the first dispatched
\* Reply whose id matches an entry of the pending-call table settles the
\* call and removes the entry; a later Reply with the same id, and a Reply
\* whose id has no entry, leaves the table as it was and settles nothing,
\* and the cursor is set to its sequence all the same.
C24_SettledAtMostOnce ==
  [][LET new == NewlyDispatched("A")
     IN /\ \A c \in 0..rpc'["A"].idCounter : Cardinality(SettledFor("A", c)') <= 1
        /\ \A c \in rpc["A"].calls :
             LET ks == {k \in 1..Len(new) : new[k].type = "reply" /\ new[k].id = c}
             IN ks # {} =>
                  /\ c \notin rpc'["A"].calls
                  /\ \A i \in SettledFor("A", c)' : rpc'["A"].settled[i].by = new[Min(ks)].n
        /\ (/\ new # <<>>
            /\ \A k \in 1..Len(new) : new[k].type = "reply" /\ new[k].id \notin rpc["A"].calls)
             => /\ rpc'["A"].calls = rpc["A"].calls
                /\ rpc'["A"].settled = rpc["A"].settled
                /\ rpc'["A"].lastSequentialCall = new[Len(new)].counter]_vars

\* a call was settled by the first Reply with its callID, a second Reply
\* with that callID was dispatched afterwards, and so was a Reply with a
\* callID the engine never allocated
C24_Witness ==
  /\ Len(rpc["A"].settled) = 1 /\ rpc["A"].settled[1].id = 1
  /\ Cardinality(RepliesTo("A", 1)) = 2
  /\ rpc["A"].settled[1].by = rpc["A"].dispatched[Min(RepliesTo("A", 1))].n
  /\ RepliesTo("A", 2) # {}
  /\ rpc["A"].idCounter = 2
  /\ rpc["A"].calls = {}

----------------------------------------------------------------------------
(* Claims checked under SpecDrain and SpecRecv *)

Max(S) == CHOOSE x \in S : \A y \in S : x >= y

\* the counters of the packets in the reorder buffer of e
Buffered(e) == {rpc[e].remoteCallQueue[k].counter : k \in 1..Len(rpc[e].remoteCallQueue)}

\* C16: if the cursor is at a-1 and the reorder buffer holds one message
\* for each of the sequences a+1..b, then the step in which the message
\* with sequence a arrives dispatches a, a+1, ..., b, each once and in
\* increasing order, and leaves in the buffer exactly the messages beyond
\* the next gap.
C16_DrainOnMissingLink ==
  [][LET p == injected'[Len(injected')].obj
         a == p.counter
         bs == {b \in Buffered("A") : (a + 1)..b \subseteq Buffered("A")}
         b == Max(bs)
         old == rpc["A"].remoteCallQueue
         new == SubSeq(rpc'["A"].dispatched, Len(rpc["A"].dispatched) + 1,
                       Len(rpc'["A"].dispatched))
     IN (/\ Delivery
         /\ rpc["A"].lastSequentialCall = a - 1
         /\ bs # {}
         /\ \A i, j \in 1..Len(old) : i # j => old[i].counter # old[j].counter)
          => /\ [k \in 1..Len(new) |-> new[k].counter] = [k \in 1..(b - a + 1) |-> a + k - 1]
             /\ rpc'["A"].remoteCallQueue = SelectSeq(old, LAMBDA q : q.counter > b)]_vars

\* C18: between two runs of the message listener, every message in the
\* reorder buffer has a sequence greater than lastDispatchedSequence + 1.
C18_NothingRunnableBuffered ==
  \A k \in 1..Len(rpc["A"].remoteCallQueue) :
    rpc["A"].remoteCallQueue[k].counter > rpc["A"].lastSequentialCall + 1

\* how often the packet that was the n-th payload occurs in `packets`
Occurrences(packets, n) == Cardinality({k \in 1..Len(packets) : packets[k].n = n})

\* C26: each delivery of a valid message leads to at most one dispatch:
\* the message is dispatched or in the reorder buffer, never both and never
\* twice, and in every state the number of valid messages received is the
\* number dispatched plus the number buffered.
C26_DispatchedOrBuffered ==
  LET valid == WellFormedOf(injected)
  IN /\ Len(valid) = Len(rpc["A"].dispatched) + Len(rpc["A"].remoteCallQueue)
     /\ \A k \in 1..Len(valid) :
          Occurrences(rpc["A"].dispatched, valid[k].n)
            + Occurrences(rpc["A"].remoteCallQueue, valid[k].n) = 1

\* a message was buffered and then dispatched behind the one it waited
\* for, and a payload with a defect was dropped
C26_Witness ==
  /\ Len(injected) = 3
  /\ WellFormed(injected[1]) /\ WellFormed(injected[2])
  /\ injected[3].json = "object" /\ ~WellFormed(injected[3])
  /\ DispatchedNs("A") = <<2, 1>>
  /\ rpc["A"].remoteCallQueue = <<>>

\* C27: the reorder buffer is ordered by non-decreasing sequence, entries
\* of equal sequence in order of arrival; a newly buffered message is
\* inserted before the first entry with a strictly greater sequence.
C27_BufferSorted ==
  [][LET old == rpc["A"].remoteCallQueue
         new == rpc'["A"].remoteCallQueue
     IN /\ \A i, j \in 1..Len(new) :
             i < j => \/ new[i].counter < new[j].counter
                      \/ new[i].counter = new[j].counter /\ new[i].n < new[j].n
        /\ (Delivery /\ Len(new) = Len(old) + 1) =>
             \E i \in 1..Len(new) :
               /\ new[i] = injected'[Len(injected')].obj
               /\ SubSeq(new, 1, i - 1) = SubSeq(old, 1, i - 1)
               /\ SubSeq(new, i + 1, Len(new)) = SubSeq(old, i, Len(old))
               /\ \A k \in 1..(i - 1) : old[k].counter <= new[i].counter
               /\ i <= Len(old) => old[i].counter > new[i].counter]_vars

\* a message was inserted between an earlier one of its own sequence and
\* one of a greater sequence
C27_Witness ==
  /\ Len(rpc["A"].remoteCallQueue) = 3
  /\ [k \in 1..3 |-> rpc["A"].remoteCallQueue[k].counter] = <<2, 2, 3>>
  /\ [k \in 1..3 |-> rpc["A"].remoteCallQueue[k].n] = <<1, 3, 2>>

\* C28: between two receptions of 'ready' the cursor never decreases: a
\* valid message other than 'ready' whose sequence is at or below the
\* cursor does not move the cursor backwards.
C28_CursorNeverDecreases ==
  [][~ReadyReceived => rpc'["A"].lastSequentialCall >= rpc["A"].lastSequentialCall]_vars

----------------------------------------------------------------------------
(* Claims checked under SpecReload *)

\* the messages of the instance of e that is gone: positions in e's
\* transmissions
PreviousEpoch(e) == 1..rpc[e].born

\* C29: once a 'ready' has been received, no message of the peer's previous
\* epoch that was in the reorder buffer when that 'ready' arrived is
\* dispatched: the step in which B is given the 'ready' of the new
\* instance of A dispatches nothing that B's buffer held from the instance
\* before.
C29_NoLeftoverAfterReady ==
  [][\A i \in delivered'["B"] \ delivered["B"] :
       (i = rpc["A"].born + 1 /\ rpc["A"].born > 0) =>
         \A k \in 1..Len(NewlyDispatched("B")) :
           \A q \in 1..Len(rpc["B"].remoteCallQueue) :
             rpc["B"].remoteCallQueue[q].n \in PreviousEpoch("A")
               => NewlyDispatched("B")[k].n # rpc["B"].remoteCallQueue[q].n]_vars

\* the Invocation of e's current instance that a call with callID c
\* transmitted: its position in e's transmissions
OwnInvocation(e, c) ==
  {j \in (rpc[e].born + 1)..Len(rpc[e].outbox) :
     Sent(e)[j].type = "method" /\ Sent(e)[j].id = c}

\* C30: a pending call is settled only by a Reply the peer produced for
\* that call's own Invocation: every call A's current instance has settled
\* was settled by a Reply that B built in answer to the Invocation that
\* call transmitted, not to one of the instance before.
C30_SettledByOwnReply ==
  \A k \in 1..Len(rpc["A"].settled) :
    LET s == rpc["A"].settled[k]
    IN Sent("B")[s.by].re \in OwnInvocation("A", s.id)

----------------------------------------------------------------------------
(* Claims checked under SpecEvents *)

\* the calls of on() listeners made in a step
NewlyHeard(e) ==
  [k \in 1..(Len(rpc'[e].heard) - Len(rpc[e].heard)) |-> rpc'[e].heard[Len(rpc[e].heard) + k]]

\* C31: an inbound Invocation is delivered only to handlers registered
\* through expose(): when an Invocation named after one of the engine's own
\* events is dispatched, no listener the application attached to that event
\* is called on account of it, and the unknown-method Reply answers it.
C31_OnlyExposedHandlers ==
  [][Delivery =>
       \A k \in 1..Len(NewlyDispatched("A")) :
         LET p == NewlyDispatched("A")[k]
         IN (p.type = "method" /\ p.method \in LifecycleEvents) =>
              /\ \A i \in 1..Len(NewlyHeard("A")) :
                   ~(NewlyHeard("A")[i].via = "dispatch" /\ NewlyHeard("A")[i].n = p.n)
              /\ \E j \in 1..Len(NewlySent("A")) :
                   /\ NewlySent("A")[j].type = "reply"
                   /\ NewlySent("A")[j].id = p.id
                   /\ NewlySent("A")[j].error = UnknownMethodError]_vars

----------------------------------------------------------------------------
(* Claims checked under SpecParticipant *)

\* the tokens of a sequence of functions, or of records of their execution
Tokens(fns) == [k \in 1..Len(fns) |-> fns[k].token]

C21_LoadedOnce ==
  [][LET P == rpc["A"].host
         Q == rpc'["A"].host
         newLoaded == {k \in (Len(P.emitted) + 1)..Len(Q.emitted) :
                         Q.emitted[k].event = "loaded"}
     IN newLoaded # {} =>
          /\ P.state = "Loading" /\ P.hasRpc
          /\ \E k \in (Len(rpc["A"].invoked) + 1)..Len(rpc'["A"].invoked) :
                rpc'["A"].invoked[k].h = ParticipantHandler("controlsReady")
          /\ Cardinality(newLoaded) = 1
          /\ \A k \in 1..Len(P.emitted) : P.emitted[k].event # "loaded"]_vars

\* C32: the state of a Participant only moves forward in the order
\* Loading < Ready < Closing < Closed, whatever the order of frame load,
\* 'controlsReady', destroy(), websocket close and websocket error: Ready is
\* entered only from Loading, and the RPC is attached only in the step in
\* which the frame loads while the state is Loading.
C32_StateMovesForward ==
  [][LET P == rpc["A"].host
         Q == rpc'["A"].host
     IN /\ StateRank(Q.state) >= StateRank(P.state)
        /\ (Q.state = "Ready" /\ P.state # "Ready") => P.state = "Loading"
        /\ (~P.hasRpc /\ Q.hasRpc) =>
             P.state = "Loading" /\ P.frameListener /\ ~Q.frameListener
        /\ (P.frameListener /\ ~Q.frameListener /\ P.state # "Loading") =>
             ~Q.hasRpc /\ ~rpc'["A"].built]_vars

\* a Participant went through Ready and is Closed, after a repeated
\* 'controlsReady', a destroy() and the close of the websocket
C32_Witness ==
  LET P == rpc["A"].host
  IN /\ P.state = "Closed" /\ P.hasRpc
     /\ \E k \in 1..Len(P.emitted) : P.emitted[k].event = "loaded"
     /\ \E k \in 1..Len(P.emitted) : P.emitted[k].event = "close" /\ P.emitted[k].expected
     /\ Cardinality({k \in 1..Len(rpc["A"].invoked) :
                       rpc["A"].invoked[k].h = ParticipantHandler("controlsReady")}) = 2

\* C33: every 'close' event emitted after the host has called destroy()
\* carries expected = true and every 'close' event emitted without such a
\* call before carries expected = false, also when the websocket raises
\* an error event and then a close event.
C33_CloseExpected ==
  [][\A k \in (Len(rpc["A"].host.emitted) + 1)..Len(rpc'["A"].host.emitted) :
       rpc'["A"].host.emitted[k].event = "close" =>
         rpc'["A"].host.emitted[k].expected = rpc["A"].host.byHost]_vars

----------------------------------------------------------------------------
(* Claims checked under SpecOn *)

\* C34: for each Invocation of 'maximize' the controls send to a Ready
\* Participant, each listener the host registered with on('maximize', ...)
\* is invoked exactly once, however many were registered and whether before
\* or after the RPC was attached: the step that dispatches such Invocations
\* emits 'maximize' to the host's listeners once for each of them.
C34_EachListenerOnce ==
  [][LET P == rpc["A"].host
         Q == rpc'["A"].host
         sent == {k \in 1..Len(NewlyDispatched("A")) :
                    /\ NewlyDispatched("A")[k].type = "method"
                    /\ NewlyDispatched("A")[k].method = "maximize"}
         emits == {k \in (Len(P.emitted) + 1)..Len(Q.emitted) :
                     Q.emitted[k].event = "maximize"}
     IN (/\ Delivery /\ P.state = "Ready"
         /\ \E k \in 1..Len(P.events) : P.events[k] = "maximize")
          => Cardinality(emits) = Cardinality(sent)]_vars

----------------------------------------------------------------------------
(* Claims checked under SpecControls *)

\* the last index of `seq` at which P holds, 0 if there is none
LastSuch(seq, P(_)) ==
  IF \E k \in 1..Len(seq) : P(seq[k])
    THEN Max({k \in 1..Len(seq) : P(seq[k])})
    ELSE 0

\* what the packets of a history report, read backwards from its end:
\* the group of the participant, the scene a group is mapped to, the kind
\* and cost of a control of a scene; `known` tells whether there is one
ReportedGroup(h) ==
  LET k == LastSuch(h, LAMBDA q : /\ q.type = "method"
                                  /\ q.method \in {"onParticipantJoin", "onParticipantUpdate"})
  IN IF k = 0 THEN "default" ELSE h[k].params.participants[1].groupID

ReportedScene(h, groupID) ==
  LET k == LastSuch(h, LAMBDA q :
             /\ q.type = "method"
             /\ \/ q.method = "onGroupDelete" /\ q.params.groupID = groupID
                \/ /\ q.method \in {"onGroupCreate", "onGroupUpdate"}
                   /\ \E g \in Range(q.params.groups) : g.groupID = groupID)
  IN IF k = 0 \/ h[k].method = "onGroupDelete" THEN [known |-> FALSE, sceneID |-> ""]
     ELSE [known |-> TRUE,
           sceneID |-> h[k].params.groups[
                         LastSuch(h[k].params.groups, LAMBDA g : g.groupID = groupID)].sceneID]

ReportedControl(h, sceneID, controlID) ==
  LET Lists(controls) == \E c \in Range(controls) : c.controlID = controlID
      Of(controls) == controls[LastSuch(controls, LAMBDA c : c.controlID = controlID)]
      whole == LastSuch(h, LAMBDA q :
                 /\ q.type = "method"
                 /\ \/ q.method = "onSceneDelete" /\ q.params.sceneID = sceneID
                    \/ /\ q.method = "onSceneCreate"
                       /\ \E sc \in Range(q.params.scenes) : sc.sceneID = sceneID)
      part == LastSuch(h, LAMBDA q :
                /\ q.type = "method"
                /\ q.method \in {"onControlCreate", "onControlUpdate"}
                /\ q.params.sceneID = sceneID
                /\ Lists(q.params.controls))
      scene == h[whole].params.scenes[
                 LastSuch(h[whole].params.scenes, LAMBDA sc : sc.sceneID = sceneID)]
      Known(c) == [known |-> TRUE, kind |-> c.kind, cost |-> c.cost]
      Unknown == [known |-> FALSE, kind |-> "", cost |-> 0]
  IN IF part > whole THEN Known(Of(h[part].params.controls))
     ELSE IF whole = 0 \/ h[whole].method = "onSceneDelete" THEN Unknown
     ELSE IF Lists(scene.controls) THEN Known(Of(scene.controls))
     ELSE Unknown

\* C37: after any sequence of incoming packets getControlKind(c) and
\* getControlCost(c) return the kind and cost most recently reported for
\* control c in the scene the current group of the participant is mapped
\* to (onSceneCreate replaces the controls of the scene, onControlCreate and
\* onControlUpdate add or overwrite the listed controls and keep the others,
\* onSceneDelete and onGroupDelete remove the entry, after which there is
\* nothing to return), and a packet whose type is not 'method' changes
\* nothing.
C37_ControlsCache ==
  [][LET cs == rpc'["A"].host.controls
         h == rpc'["A"].host.incoming
         scene == ReportedScene(h, ReportedGroup(h))
     IN /\ \A c \in ControlIDs :
             LET r == IF scene.known THEN ReportedControl(h, scene.sceneID, c)
                      ELSE [known |-> FALSE, kind |-> "", cost |-> 0]
             IN IF r.known
                  THEN /\ ~cachedControl(cs, c).threw
                       /\ getControlKind(cs, c) = r.kind
                       /\ getControlCost(cs, c) = r.cost
                  ELSE cachedControl(cs, c).threw
        /\ (h # <<>> /\ h[Len(h)].type # "method") => cs = rpc["A"].host.controls]_vars

\* 'default' is mapped to s1, s1 is created with c1 and c2, then c1 is
\* updated: c1 has its new kind and cost and c2 is kept
C37_Witness ==
  LET cs == rpc["A"].host.controls
      h == rpc["A"].host.incoming
  IN /\ Len(h) = 3
     /\ h[1].method = "onGroupCreate" /\ h[2].method = "onSceneCreate"
     /\ h[3].method = "onControlCreate"
     /\ getControlKind(cs, "c1") = "joystick" /\ getControlCost(cs, "c1") = 5
     /\ getControlKind(cs, "c2") = "joystick" /\ getControlCost(cs, "c2") = 5

----------------------------------------------------------------------------
(* Claims checked under SpecConvert *)

\* C35: once a getTime call of the synchronisation has been rejected no
\* further sample is taken and delta keeps its initial value 0; every
\* conversion settled after that resolves (never rejects) to its timestamp
\* unchanged; a conversion asked for before sync had finished is not
\* settled before sync has ended.
C35_SyncErrorSwallowed ==
  [][LET c == clock'
     IN /\ clock.failed => c.failed /\ c.calls = clock.calls
        /\ c.failed =>
              /\ c.call = "none" /\ c.delta = 0
              /\ c.awaiting = "resolved" /\ c.waiting = <<>>
              /\ \A k \in 1..Len(c.settled) :
                   /\ c.settled[k].outcome = "resolved"
                   /\ c.settled[k].value = c.settled[k].timestamp
        /\ c.awaiting # "resolved" => c.settled = <<>>
        /\ \A k \in 1..Len(c.waiting) : c.waiting[k].early]_vars

\* the third getTime call was rejected after two samples of a server 10 ms
\* ahead; a conversion asked for before and one asked for after have both
\* resolved to their timestamps
C35_Witness ==
  /\ clock.failed /\ clock.calls = 3 /\ clock.skew = 10
  /\ Len(clock.deltaSamples) = 2 /\ clock.deltaSamples[2] = Ms(10)
  /\ Len(clock.settled) = 2
  /\ clock.settled[1].early /\ ~clock.settled[2].early
  /\ clock.settled[1].fn = "remoteToLocal" /\ clock.settled[1].value = Ms(7)
  /\ clock.settled[2].fn = "localToRemote" /\ clock.settled[2].value = Ms(7)

----------------------------------------------------------------------------
(* Claims checked under SpecClock *)

\* every sample was taken with the one-way latency h for the request and
\* for the response
SymmetricLatency(h) ==
  /\ Len(clock.lats) = SyncRemaining + 1
  /\ \A k \in 1..Len(clock.lats) : clock.lats[k] = <<h, h>>

\* C19: if the server's clock is ahead of the local clock by D and every
\* getTime sample has the same symmetric latency, then after sync has
\* completed localToRemote(t) is t + D and remoteToLocal(t) is t - D for
\* every timestamp t.
C19_ClockSync ==
  (/\ clock.awaiting = "resolved" /\ ~clock.failed
   /\ \E h \in Latencies : SymmetricLatency(h))
    => \A t \in Timestamps :
         /\ localToRemote(clock, Ms(t)) = Ms(t + clock.skew)
         /\ remoteToLocal(clock, Ms(t)) = Ms(t - clock.skew)

\* the element at index 2 of four samples in ascending numeric order
UpperMedian(samples) ==
  CHOOSE x \in Range(samples) :
    /\ Cardinality({k \in 1..Len(samples) : samples[k] < x}) <= 2
    /\ Cardinality({k \in 1..Len(samples) : samples[k] <= x}) > 2

\* C36: after a successful synchronisation the Clock has made exactly four
\* getTime calls, has four delta samples, and its delta is the element at
\* index 2 of the samples in ascending numeric order (the upper median),
\* whatever the signs and the numbers of digits of the samples.
C36_UpperMedian ==
  (clock.awaiting = "resolved" /\ ~clock.failed) =>
    /\ clock.calls = SyncRemaining + 1
    /\ Len(clock.deltaSamples) = SyncRemaining + 1
    /\ clock.delta = UpperMedian(clock.deltaSamples)

\* the case of the test: the server 100 ms ahead, a round trip of 20 ms,
\* sync completed
C19_Witness ==
  /\ clock.awaiting = "resolved" /\ ~clock.failed
  /\ clock.skew = 100
  /\ SymmetricLatency(10)
  /\ clock.calls = 4
  /\ localToRemote(clock, Ms(0)) = Ms(100) /\ remoteToLocal(clock, Ms(0)) = Ms(-100)

====
